---- MODULE Spec2Model ----
(***************************************************************************)
(* Model of the qiita-search aggregation pipeline.                         *)
(*                                                                         *)
(*   Spec        runSearch (the aggregation engine) driving providers that *)
(*               implement the Provider interface in any way               *)
(*   SpecEnrich  one call of a provider's enrich (qiita, note, zenn)       *)
(*   SpecSearch  one call of a provider's search (qiita; note and zenn     *)
(*               through duckduckgoSiteSearch)                             *)
(*   SpecAll     the three of them side by side: a run, a call of enrich   *)
(*               or a call of search                                       *)
(*   SpecApp     the App component: the run-status machine of the page     *)
(*   SpecTokenize  the start of a search from every text of the search box *)
(*   SpecDelay   the calls of delay made on one signal                     *)
(*   SpecLive    a run, a call of enrich or a call of search, where every  *)
(*               request, body read and timer eventually settles           *)
(***************************************************************************)
EXTENDS Integers, Sequences, FiniteSets, TLC

(***************************************************************************)
(* Bounds of the model.                                                    *)
(***************************************************************************)
\* longest list a provider's search resolves with
MaxLen == 2
\* largest maxTotal a run is started with
MaxTotalBound == 3
\* longest list a provider's enrich is called with
MaxItems == 2
\* most result rows of a DuckDuckGo page
MaxRows == 2
\* longest query typed into the search box, in characters
MaxQuery == 3
\* most searches started from the page
MaxRuns == 2
\* most hint timers pending at once
MaxHints == 1
\* most delays started on one signal
MaxDelays == 3

\* the provider ids of the repository
ProviderIds == {"qiita", "note", "zenn"}
\* the source label of the one row a provider does not label with its own
\* id: a provider of the run in some provider lists, of none in the others
OtherSource(p) == IF p = "zenn" THEN "note" ELSE "zenn"
\* the provider lists a run is started with
ProviderLists ==
  { <<>>, <<"qiita">>, <<"qiita", "note">>, <<"zenn", "qiita">> }
\* the urls each provider can discover under its own id; qiita's overlap
\* with those of the two others
UrlsOf(p) ==
  CASE p = "qiita" -> {"u1", "u2"}
    [] p = "note"  -> {"u2"}
    [] OTHER       -> {"u1"}
\* the token lists a run is started with
TokenLists == { <<"a", "b">> }

VARIABLES
  \* ---- runSearch ----
  tokens,        \* opts.tokens
  providers,     \* opts.providers, as the sequence of their ids
  maxTotal,      \* opts.maxTotal
  aborted,       \* signal.aborted
  abortedIn,     \* when the signal was triggered: "never", "call" (before
                 \* runSearch was called), "discover" or "enrich"
  pc,            \* where runSearch is: "init", "discover", "enrich", "done"
  outcome,       \* "none", "resolved" (a collection), "aborted", "error"
  result,        \* the collection runSearch resolved with
  discovered,    \* the merged pool
  seenUrls,      \* the dedup set
  searchState,   \* per provider: "idle", "pending", "resolved", "failed", "cancelled"
  searchCalls,   \* per provider: the arguments of each search invocation
  searchResult,  \* per provider: the list its search resolved with
  mergeOrder,    \* the providers in the order their search tasks settled
  groups,        \* itemsToEnrichByProvider, in insertion order
  enrichState,   \* per provider: "idle", "pending", "ok", "more", "failed", "cancelled"
  enrichCalls,   \* per provider: the argument of each enrich invocation
  enrichChunk,   \* per provider: what its enrichment task contributed
  enrichOrder,   \* the providers in the order their enrichment tasks settled
  \* ---- one call of provider.enrich(items, signal) ----
  eProvider,     \* the provider whose enrich is called
  eItems,        \* the caller's array, as it is now
  itemsAtCall,   \* the caller's array as it was when enrich was called
  signalAborted, \* signal.aborted
  eAbortAt,      \* when the signal was triggered: "never", "call" (before the
                 \* call), or the await it interrupted: "fetch", "text", "delay"
  ePc,           \* "call", the pending await ("fetch", "text", "delay"), "done"
  eWait,         \* the awaited promise: "none", "pending", "aborted" (rejected
                 \* by the signal's abort event)
  eIdx,          \* the index of the item the loop is at
  enrichedItems, \* the loop's accumulator
  eLog,          \* what the call did so far, in order: <<"fetch", i>> (the
                 \* request for item i went out), <<"item", i>> (the helper
                 \* returned for item i), <<"delay", i>> (the delay after item
                 \* i was started), <<"elapsed", i>> (its timer fired)
  eDocs,         \* per item the helper returned for: how its request ended
                 \* ("page", "status", "error", "aborted") and the page read
  eOutcome,      \* "none", "resolved", "aborted"
  eResult,       \* the list enrich resolved with
  \* ---- one call of provider.search(opts, signal) ----
  sFn,           \* the function called: "qiita" (qiitaProvider.search) or
                 \* "ddg" (duckduckgoSiteSearch)
  maxDiscover,   \* opts.maxDiscover (maxResults)
  sAborted,      \* signal.aborted
  sAbortAt,      \* when the signal was triggered: "never", "call" or the await
                 \* it interrupted: "fetch", "json", "text", "delay"
  sPc,           \* "call", the pending await, "done"
  sWait,         \* the awaited promise: "none", "pending", "aborted"
  page,          \* qiita's page counter
  foundItems,    \* the accumulator
  foundAtAbort,  \* the accumulator as it was when the signal was triggered
  fetchLog,      \* the pages fetched so far, in order
  delayLog,      \* the pages after which a politeness delay was started
  bodyLog,       \* the lengths of the arrays the fetched pages delivered
  sFailure,      \* the failure that ended the call, other than cancellation:
                 \* "none", "network", "status", "malformed"
  sOutcome,      \* "none", "resolved", "rejected"
  sResult,       \* the list search resolved with
  \* ---- App ----
  query,         \* the text of the search box, a sequence of characters
  status,        \* 'idle', 'searching', 'stopped', 'finished'
  statusText,    \* "", "enter" (the hint to enter keywords), "searching",
                 \* "stopped", "error" (the generic failure text)
  shownItems,    \* the foundItems state: the collection on display
  selectedUrls,  \* the selectedUrls state
  controller,    \* abortControllerRef.current: "null", "live" or "aborted"
  runTokens,     \* the tokens the last run was started with
  runs,          \* the number of runs started
  reports,       \* per run that ended: how runSearch settled and what the
                 \* page showed when the handler returned
  hintTimers,    \* the pending timers that clear the status text
  \* ---- delay(ms, signal), several calls on one signal ----
  dAborted,      \* signal.aborted
  dMs,           \* per call: ms
  dState,        \* per call: the promise, "uncalled", "pending", "resolved",
                 \* "rejected"
  dTimer,        \* per call: the timeout, "none", "armed", "fired", "cleared"
  dListener,     \* per call: whether its abort listener is on the signal
  dCalls,        \* per call: the calls of resolve and reject made so far
  dAtCall        \* per call: signal.aborted when delay was called

engineVars ==
  << tokens, providers, maxTotal, aborted, abortedIn, pc, outcome, result, discovered,
     seenUrls, searchState, searchCalls, searchResult, mergeOrder, groups,
     enrichState, enrichCalls, enrichChunk, enrichOrder >>

enrichCallVars ==
  << eProvider, eItems, itemsAtCall, signalAborted, eAbortAt, ePc, eWait, eIdx,
     enrichedItems, eLog, eDocs, eOutcome, eResult >>

searchCallVars ==
  << sFn, maxDiscover, sAborted, sAbortAt, sPc, sWait, page, foundItems,
     foundAtAbort, fetchLog, delayLog, bodyLog, sFailure, sOutcome, sResult >>

appVars ==
  << query, status, statusText, shownItems, selectedUrls, controller, runTokens,
     runs, reports, hintTimers >>

delayVars == << dAborted, dMs, dState, dTimer, dListener, dCalls, dAtCall >>

vars == << engineVars, enrichCallVars, searchCallVars, appVars, delayVars >>

(***************************************************************************)
(* Helpers                                                                 *)
(***************************************************************************)
Range(s) == { s[i] : i \in 1..Len(s) }

Max(a, b) == IF a >= b THEN a ELSE b

Min(a, b) == IF a <= b THEN a ELSE b

\* Math.ceil(a / b) for a >= 0, b > 0
CeilDiv(a, b) == IF a % b = 0 THEN a \div b ELSE (a \div b) + 1

\* mutant of Slice: the collection is returned whole
SliceNothing(s, n) == s

\* Array.prototype.slice(0, n) for n >= 0
Slice(s, n) == SubSeq(s, 1, Min(n, Len(s)))

Urls(s) == { s[i].url : i \in 1..Len(s) }

NoDupUrls(s) == \A i, j \in 1..Len(s) : s[i].url = s[j].url => i = j

\* all sequences over S of length at most n
SeqsUpTo(S, n) == UNION { [1..k -> S] : k \in 0..n }

(***************************************************************************)
(* Items.  A FoundItem is [url, source, rank, meta] with meta = "none";    *)
(* an EnrichedItem that carries metadata has meta = "added".               *)
(***************************************************************************)
\* what a provider can hand back for one result row: its own urls under its
\* own id, and one row labelled with another source
RowsOf(p) ==
  { [url |-> u, source |-> p] : u \in UrlsOf(p) }
    \cup { [url |-> "u4", source |-> OtherSource(p)] }

\* the FoundItem lists a search can resolve with
SearchResultsOf(p) ==
  { [i \in 1..Len(rows) |->
       [url |-> rows[i].url, source |-> rows[i].source, rank |-> i, meta |-> "none"]]
    : rows \in SeqsUpTo(RowsOf(p), MaxLen) }

(***************************************************************************)
(* runSearch                                                               *)
(***************************************************************************)
\* mutant of PerProviderTarget: the quota is rounded down
PerProviderTargetFloor(m, n) == m \div Max(1, n)

\* const perProviderTarget = Math.ceil(maxTotal / Math.max(1, providers.length))
PerProviderTarget(m, n) == CeilDiv(m, Max(1, n))

\* mutant of MergeItems: a repeated url replaces the item kept for it
RECURSIVE MergeKeepLast(_, _, _, _)
MergeKeepLast(items, pool, seen, ab) ==
  IF items = << >> \/ ab
    THEN [pool |-> pool, seen |-> seen]
    ELSE LET item == Head(items)
         IN IF item.url \notin seen
              THEN MergeKeepLast(Tail(items), Append(pool, item), seen \cup {item.url}, ab)
              ELSE MergeKeepLast(Tail(items),
                     [i \in 1..Len(pool) |->
                        IF pool[i].url = item.url THEN item ELSE pool[i]],
                     seen, ab)

\* the loop of the .then callback: merge one provider's items into the pool
RECURSIVE MergeItems(_, _, _, _)
MergeItems(items, pool, seen, ab) ==
  IF items = << >> \/ ab
    THEN [pool |-> pool, seen |-> seen]
    ELSE LET item == Head(items)
         IN IF item.url \notin seen
              THEN MergeItems(Tail(items), Append(pool, item), seen \cup {item.url}, ab)
              ELSE MergeItems(Tail(items), pool, seen, ab)

\* mutant of FindProvider: every source label resolves to a provider
FindProviderAny(src, provs) == src

\* providers.find(p => p.id === item.source)
FindProvider(src, provs) ==
  IF \E i \in 1..Len(provs) : provs[i] = src
    THEN provs[CHOOSE i \in 1..Len(provs) :
                 provs[i] = src /\ \A j \in 1..(i - 1) : provs[j] # src]
    ELSE "undefined"

\* the index of provider p in the Map's entries, 0 when it has no entry
EntryOf(map, p) ==
  IF \E i \in 1..Len(map) : map[i].provider = p
    THEN CHOOSE i \in 1..Len(map) : map[i].provider = p
    ELSE 0

\* mutant of GroupByProvider: an item goes to the front of its group
RECURSIVE GroupByProviderInFront(_, _, _)
GroupByProviderInFront(items, provs, map) ==
  IF items = << >>
    THEN map
    ELSE LET item == Head(items)
             p == FindProvider(item.source, provs)
             k == EntryOf(map, p)
         IN IF p = "undefined"
              THEN GroupByProviderInFront(Tail(items), provs, map)
              ELSE IF k = 0
                THEN GroupByProviderInFront(Tail(items), provs,
                       Append(map, [provider |-> p, items |-> <<item>>]))
                ELSE GroupByProviderInFront(Tail(items), provs,
                       [map EXCEPT ![k].items = << item >> \o @])

\* the grouping loop: itemsToEnrichByProvider as its entries in insertion order
RECURSIVE GroupByProvider(_, _, _)
GroupByProvider(items, provs, map) ==
  IF items = << >>
    THEN map
    ELSE LET item == Head(items)
             p == FindProvider(item.source, provs)
             k == EntryOf(map, p)
         IN IF p = "undefined"
              THEN GroupByProvider(Tail(items), provs, map)
              ELSE IF k = 0
                THEN GroupByProvider(Tail(items), provs,
                       Append(map, [provider |-> p, items |-> <<item>>]))
                ELSE GroupByProvider(Tail(items), provs,
                       [map EXCEPT ![k].items = Append(@, item)])

\* what a provider's enrich resolves with: the items with metadata added
\* ("ok"), or a longer list than it was given ("more")
AddMeta(items) == [i \in 1..Len(items) |-> [items[i] EXCEPT !.meta = "added"]]

EnrichResolves(items, how) ==
  IF how = "ok" THEN AddMeta(items) ELSE AddMeta(items) \o AddMeta(items)

\* mutant of Flat: the chunks in the order the enrichment tasks settled
RECURSIVE FlatInSettleOrder(_, _)
FlatInSettleOrder(map, chunk) ==
  IF map = << >> THEN << >>
  ELSE chunk[enrichOrder[Len(enrichOrder) - Len(map) + 1]]
         \o FlatInSettleOrder(Tail(map), chunk)

\* enrichedChunks.flat(): the chunks in the order of the Map's entries
RECURSIVE Flat(_, _)
Flat(map, chunk) ==
  IF map = << >> THEN << >>
  ELSE chunk[Head(map).provider] \o Flat(Tail(map), chunk)

InitEngine ==
  /\ tokens \in TokenLists
  /\ providers \in ProviderLists
  /\ maxTotal \in 1..MaxTotalBound
  /\ aborted \in BOOLEAN
  /\ abortedIn = IF aborted THEN "call" ELSE "never"
  /\ pc = "init"
  /\ outcome = "none"
  /\ result = << >>
  /\ discovered = << >>
  /\ seenUrls = {}
  /\ searchState = [p \in ProviderIds |-> "idle"]
  /\ searchCalls = [p \in ProviderIds |-> << >>]
  /\ searchResult = [p \in ProviderIds |-> << >>]
  /\ mergeOrder = << >>
  /\ groups = << >>
  /\ enrichState = [p \in ProviderIds |-> "idle"]
  /\ enrichCalls = [p \in ProviderIds |-> << >>]
  /\ enrichChunk = [p \in ProviderIds |-> << >>]
  /\ enrichOrder = << >>

\* mutant of Start: the entry check is missing
StartUnchecked ==
  /\ pc = "init"
  /\ pc' = "discover"
  /\ searchState' =
       [p \in ProviderIds |->
          IF p \in Range(providers) THEN "pending" ELSE searchState[p]]
  /\ searchCalls' =
       [p \in ProviderIds |->
          IF p \in Range(providers)
            THEN Append(searchCalls[p],
                   [tokens |-> tokens,
                    maxDiscover |-> PerProviderTarget(maxTotal, Len(providers))])
            ELSE searchCalls[p]]
  /\ UNCHANGED << enrichCallVars, searchCallVars, appVars, delayVars >>
  /\ UNCHANGED enrichOrder
  /\ UNCHANGED << tokens, providers, maxTotal, aborted, abortedIn, outcome, result,
                  discovered, seenUrls, searchResult, mergeOrder, groups,
                  enrichState, enrichCalls, enrichChunk >>

\* runSearch is called: the entry check, then one search per provider
Start ==
  /\ pc = "init"
  /\ IF aborted
       THEN /\ pc' = "done"
            /\ outcome' = "aborted"
            /\ UNCHANGED << searchState, searchCalls >>
       ELSE /\ pc' = "discover"
            /\ searchState' =
                 [p \in ProviderIds |->
                    IF p \in Range(providers) THEN "pending" ELSE searchState[p]]
            /\ searchCalls' =
                 [p \in ProviderIds |->
                    IF p \in Range(providers)
                      THEN Append(searchCalls[p],
                             [tokens |-> tokens,
                              maxDiscover |-> PerProviderTarget(maxTotal, Len(providers))])
                      ELSE searchCalls[p]]
            /\ UNCHANGED outcome
  /\ UNCHANGED << enrichCallVars, searchCallVars, appVars, delayVars >>
  /\ UNCHANGED enrichOrder
  /\ UNCHANGED << tokens, providers, maxTotal, aborted, abortedIn, result, discovered,
                  seenUrls, searchResult, mergeOrder, groups, enrichState,
                  enrichCalls, enrichChunk >>

\* mutant of SearchResolve: the provider's items go in front of the pool
SearchResolveInFront(p, items) ==
  /\ pc = "discover"
  /\ searchState[p] = "pending"
  /\ LET m == MergeItems(items, << >>, seenUrls, aborted)
     IN /\ discovered' = m.pool \o discovered
        /\ seenUrls' = m.seen
  /\ searchState' = [searchState EXCEPT ![p] = "resolved"]
  /\ searchResult' = [searchResult EXCEPT ![p] = items]
  /\ mergeOrder' = Append(mergeOrder, p)
  /\ UNCHANGED << enrichCallVars, searchCallVars, appVars, delayVars >>
  /\ UNCHANGED enrichOrder
  /\ UNCHANGED << tokens, providers, maxTotal, aborted, abortedIn, pc, outcome, result,
                  searchCalls, groups, enrichState, enrichCalls, enrichChunk >>

\* a provider's search resolves and the .then callback merges its items
SearchResolve(p, items) ==
  /\ pc = "discover"
  /\ searchState[p] = "pending"
  /\ LET m == MergeItems(items, discovered, seenUrls, aborted)
     IN /\ discovered' = m.pool
        /\ seenUrls' = m.seen
  /\ searchState' = [searchState EXCEPT ![p] = "resolved"]
  /\ searchResult' = [searchResult EXCEPT ![p] = items]
  /\ mergeOrder' = Append(mergeOrder, p)
  /\ UNCHANGED << enrichCallVars, searchCallVars, appVars, delayVars >>
  /\ UNCHANGED enrichOrder
  /\ UNCHANGED << tokens, providers, maxTotal, aborted, abortedIn, pc, outcome, result,
                  searchCalls, groups, enrichState, enrichCalls, enrichChunk >>

\* mutant of SearchReject: the rejection is not caught and fails the run
SearchRejectEscapes(p, name) ==
  /\ pc = "discover"
  /\ searchState[p] = "pending"
  /\ name = "AbortError" => aborted
  /\ searchState' =
       [searchState EXCEPT ![p] = IF name = "AbortError" THEN "cancelled" ELSE "failed"]
  /\ mergeOrder' = Append(mergeOrder, p)
  /\ pc' = "done"
  /\ outcome' = IF name = "AbortError" THEN "aborted" ELSE "error"
  /\ UNCHANGED << enrichCallVars, searchCallVars, appVars, delayVars >>
  /\ UNCHANGED enrichOrder
  /\ UNCHANGED << tokens, providers, maxTotal, aborted, abortedIn, result,
                  discovered, seenUrls, searchCalls, searchResult, groups,
                  enrichState, enrichCalls, enrichChunk >>

\* a provider's search rejects and the .catch callback absorbs it; an
\* AbortError is raised only from the triggered signal
SearchReject(p, name) ==
  /\ pc = "discover"
  /\ searchState[p] = "pending"
  /\ name = "AbortError" => aborted
  /\ searchState' =
       [searchState EXCEPT ![p] = IF name = "AbortError" THEN "cancelled" ELSE "failed"]
  /\ mergeOrder' = Append(mergeOrder, p)
  /\ UNCHANGED << enrichCallVars, searchCallVars, appVars, delayVars >>
  /\ UNCHANGED enrichOrder
  /\ UNCHANGED << tokens, providers, maxTotal, aborted, abortedIn, pc, outcome, result,
                  discovered, seenUrls, searchCalls, searchResult, groups,
                  enrichState, enrichCalls, enrichChunk >>

\* await Promise.all(searchPromises) returns: the abort check, the grouping
\* and one enrich per group
JoinDiscovery ==
  /\ pc = "discover"
  /\ \A i \in 1..Len(providers) : searchState[providers[i]] # "pending"
  /\ IF aborted
       THEN /\ pc' = "done"
            /\ outcome' = "aborted"
            /\ UNCHANGED << groups, enrichState, enrichCalls >>
       ELSE LET map == GroupByProvider(discovered, providers, << >>)
                at(p) == EntryOf(map, p)
            IN /\ pc' = "enrich"
               /\ groups' = map
               /\ enrichState' =
                    [p \in ProviderIds |->
                       IF at(p) # 0 THEN "pending" ELSE enrichState[p]]
               /\ enrichCalls' =
                    [p \in ProviderIds |->
                       IF at(p) # 0 THEN Append(enrichCalls[p], map[at(p)].items)
                                    ELSE enrichCalls[p]]
               /\ UNCHANGED outcome
  /\ UNCHANGED << enrichCallVars, searchCallVars, appVars, delayVars >>
  /\ UNCHANGED enrichOrder
  /\ UNCHANGED << tokens, providers, maxTotal, aborted, abortedIn, result, discovered,
                  seenUrls, searchState, searchCalls, searchResult, mergeOrder,
                  enrichChunk >>

\* a provider's enrich resolves
EnrichResolve(p, how) ==
  /\ pc = "enrich"
  /\ enrichState[p] = "pending"
  /\ enrichState' = [enrichState EXCEPT ![p] = how]
  /\ enrichOrder' = Append(enrichOrder, p)
  /\ enrichChunk' =
       [enrichChunk EXCEPT ![p] = EnrichResolves(groups[EntryOf(groups, p)].items, how)]
  /\ UNCHANGED << enrichCallVars, searchCallVars, appVars, delayVars >>
  /\ UNCHANGED << tokens, providers, maxTotal, aborted, abortedIn, pc, outcome, result,
                  discovered, seenUrls, searchState, searchCalls, searchResult,
                  mergeOrder, groups, enrichCalls >>

\* mutant of EnrichReject: the .catch callback returns nothing for the group
EnrichRejectDrops(p, name) ==
  /\ pc = "enrich"
  /\ enrichState[p] = "pending"
  /\ name = "AbortError" => aborted
  /\ enrichState' =
       [enrichState EXCEPT ![p] = IF name = "AbortError" THEN "cancelled" ELSE "failed"]
  /\ enrichOrder' = Append(enrichOrder, p)
  /\ enrichChunk' = [enrichChunk EXCEPT ![p] = << >>]
  /\ UNCHANGED << enrichCallVars, searchCallVars, appVars, delayVars >>
  /\ UNCHANGED << tokens, providers, maxTotal, aborted, abortedIn, pc, outcome, result,
                  discovered, seenUrls, searchState, searchCalls, searchResult,
                  mergeOrder, groups, enrichCalls >>

\* a provider's enrich rejects and the .catch callback returns the group's items
EnrichReject(p, name) ==
  /\ pc = "enrich"
  /\ enrichState[p] = "pending"
  /\ name = "AbortError" => aborted
  /\ enrichState' =
       [enrichState EXCEPT ![p] = IF name = "AbortError" THEN "cancelled" ELSE "failed"]
  /\ enrichOrder' = Append(enrichOrder, p)
  /\ enrichChunk' = [enrichChunk EXCEPT ![p] = groups[EntryOf(groups, p)].items]
  /\ UNCHANGED << enrichCallVars, searchCallVars, appVars, delayVars >>
  /\ UNCHANGED << tokens, providers, maxTotal, aborted, abortedIn, pc, outcome, result,
                  discovered, seenUrls, searchState, searchCalls, searchResult,
                  mergeOrder, groups, enrichCalls >>

\* mutant of JoinEnrich: the abort check after the join is missing
JoinEnrichUnchecked ==
  /\ pc = "enrich"
  /\ \A i \in 1..Len(groups) : enrichState[groups[i].provider] # "pending"
  /\ pc' = "done"
  /\ outcome' = "resolved"
  /\ result' = Slice(Flat(groups, enrichChunk), maxTotal)
  /\ UNCHANGED << enrichCallVars, searchCallVars, appVars, delayVars >>
  /\ UNCHANGED enrichOrder
  /\ UNCHANGED << tokens, providers, maxTotal, aborted, abortedIn, discovered, seenUrls,
                  searchState, searchCalls, searchResult, mergeOrder, groups,
                  enrichState, enrichCalls, enrichChunk >>

\* await Promise.all(enrich tasks) returns: flat, the abort check, the slice
JoinEnrich ==
  /\ pc = "enrich"
  /\ \A i \in 1..Len(groups) : enrichState[groups[i].provider] # "pending"
  /\ pc' = "done"
  /\ IF aborted
       THEN /\ outcome' = "aborted"
            /\ UNCHANGED result
       ELSE /\ outcome' = "resolved"
            /\ result' = Slice(Flat(groups, enrichChunk), maxTotal)
  /\ UNCHANGED << enrichCallVars, searchCallVars, appVars, delayVars >>
  /\ UNCHANGED enrichOrder
  /\ UNCHANGED << tokens, providers, maxTotal, aborted, abortedIn, discovered, seenUrls,
                  searchState, searchCalls, searchResult, mergeOrder, groups,
                  enrichState, enrichCalls, enrichChunk >>

\* the caller triggers the signal while the run is in progress
Abort ==
  /\ pc \in {"discover", "enrich"}
  /\ ~aborted
  /\ aborted' = TRUE
  /\ abortedIn' = pc
  /\ UNCHANGED << enrichCallVars, searchCallVars, appVars, delayVars >>
  /\ UNCHANGED enrichOrder
  /\ UNCHANGED << tokens, providers, maxTotal, pc, outcome, result, discovered,
                  seenUrls, searchState, searchCalls, searchResult, mergeOrder,
                  groups, enrichState, enrichCalls, enrichChunk >>

ErrorNames == {"AbortError", "TypeError"}

SearchSettles ==
  \E p \in ProviderIds :
    \/ \E items \in SearchResultsOf(p) : SearchResolve(p, items)
    \/ \E name \in ErrorNames : SearchReject(p, name)

EnrichSettles ==
  \E p \in ProviderIds :
    \/ \E how \in {"ok", "more"} : EnrichResolve(p, how)
    \/ \E name \in ErrorNames : EnrichReject(p, name)

(***************************************************************************)
(* Item pages and the providers' per-item enrichment.  A value that        *)
(* JavaScript leaves undefined is "undefined"; numbers are written as      *)
(* their decimal text and NaN as "NaN".                                    *)
(***************************************************************************)
\* a FoundItem: every field of the type, the metadata fields not yet set
FoundItem(url, source, title, snippet, rank, raw) ==
  [url |-> url, source |-> source, title |-> title, snippet |-> snippet,
   rank |-> rank, raw |-> raw,
   publishedAt |-> "undefined", likeCount |-> "undefined", viewCount |-> "undefined"]

NoRaw == [kind |-> "undefined", created_at |-> "undefined", likes_count |-> "undefined"]

\* the record the Qiita API returned for an item
QiitaRaw(created, likes) ==
  [kind |-> "object", created_at |-> created, likes_count |-> likes]

\* the items a provider's enrich is called with
ItemsOf(p) ==
  CASE p = "qiita" ->
         { FoundItem("q1", "qiita", "T1", "undefined", "1",
                     QiitaRaw("2024-01-01T00:00:00Z", "42")),
           FoundItem("q2", "qiita", "undefined", "undefined", "2",
                     QiitaRaw("undefined", "0")),
           FoundItem("q3", "qiita", "T3", "undefined", "3", NoRaw) }
    [] p = "note" ->
         { FoundItem("n1", "note", "N1", "s1", "1", NoRaw),
           FoundItem("n2", "note", "N2", "undefined", "2", NoRaw) }
    [] OTHER ->
         { FoundItem("z1", "zenn", "Z1", "s1", "1", NoRaw),
           FoundItem("z2", "zenn", "Z2", "undefined", "2", NoRaw) }

EnrichInputs(p) == SeqsUpTo(ItemsOf(p), MaxItems)

\* parseInt(text, 10) on the texts the pages carry
ParseInt(text) ==
  CASE text = "0"     -> "0"
    [] text = "7"     -> "7"
    [] text = "42"    -> "42"
    [] text = "1234"  -> "1234"
    [] text = "1,234" -> "1"
    [] OTHER          -> "NaN"

\* text.replace(/,/g, '')
StripCommas(text) == IF text = "1,234" THEN "1234" ELSE text

\* !v for a string: undefined and the empty string
FalsyText(v) == v \in {"undefined", ""}

\* !v for a number: undefined, 0 and NaN
FalsyNumber(v) == v \in {"undefined", "0", "NaN"}

\* a || b for strings
OrElse(a, b) == IF FalsyText(a) THEN b ELSE a

\* a note.com page: the datetime attribute of its time element and the text
\* the like pattern captured ("nomatch" when the pattern does not match)
NotePages ==
  { [time |-> "undefined", likeText |-> "nomatch"],
    [time |-> "2024-02-02T00:00:00Z", likeText |-> "42"],
    [time |-> "", likeText |-> "1,234"] }

\* the JSON-LD block of a zenn.dev page: kind is "absent", "malformed" or
\* "object"; stat is what the LikeAction lookup gives: "absent" (no
\* interactionStatistic), "nolike" (no LikeAction entry), "throws" (an entry
\* without interactionType) or the entry's userInteractionCount
LdJson(kind, published, created, stat) ==
  [kind |-> kind, datePublished |-> published, dateCreated |-> created, stat |-> stat]

\* a zenn.dev page: its JSON-LD block, the datetime attribute of its time
\* element and the text of the like button's span
ZennPages ==
  { [ld |-> LdJson("object", "2024-01-01T00:00:00Z", "undefined", "42"),
     time |-> "2024-03-03T00:00:00Z", likeSpan |-> "7"],
    [ld |-> LdJson("absent", "undefined", "undefined", "absent"),
     time |-> "2024-03-03T00:00:00Z", likeSpan |-> "7"],
    [ld |-> LdJson("malformed", "undefined", "undefined", "absent"),
     time |-> "undefined", likeSpan |-> "undefined"],
    [ld |-> LdJson("malformed", "undefined", "undefined", "absent"),
     time |-> "2024-03-03T00:00:00Z", likeSpan |-> "7"],
    [ld |-> LdJson("object", "undefined", "2024-04-04T00:00:00Z", "0"),
     time |-> "2024-03-03T00:00:00Z", likeSpan |-> "7"],
    [ld |-> LdJson("object", "2024-01-01T00:00:00Z", "undefined", "throws"),
     time |-> "undefined", likeSpan |-> "abc"] }

PagesOf(p) == IF p = "note" THEN NotePages ELSE ZennPages

\* mutant of CopyOf: the copy carries the url and the source only
CopyOfUrlAndSource(item) ==
  [item EXCEPT !.title = "undefined", !.snippet = "undefined",
               !.rank = "undefined", !.raw = NoRaw]

\* { ...item }
CopyOf(item) == item

\* mutant of EnrichQiitaItem: the view count is reported as 0
EnrichQiitaItemZeroViews(item) ==
  [CopyOf(item) EXCEPT
     !.publishedAt = IF item.raw.kind = "undefined" THEN "undefined"
                     ELSE item.raw.created_at,
     !.likeCount = IF item.raw.kind = "undefined" THEN "undefined"
                   ELSE item.raw.likes_count,
     !.viewCount = "0"]

\* qiitaProvider.enrich, the map callback
EnrichQiitaItem(item) ==
  [CopyOf(item) EXCEPT
     !.publishedAt = IF item.raw.kind = "undefined" THEN "undefined"
                     ELSE item.raw.created_at,
     !.likeCount = IF item.raw.kind = "undefined" THEN "undefined"
                   ELSE item.raw.likes_count,
     !.viewCount = "undefined"]

\* enrichNoteItem, from the page on
EnrichNoteItem(item, doc) ==
  [CopyOf(item) EXCEPT
     !.publishedAt = OrElse(doc.time, "undefined"),
     !.likeCount = IF doc.likeText = "nomatch" THEN "undefined"
                   ELSE ParseInt(StripCommas(doc.likeText))]

\* enrichZennItem, from the page on
EnrichZennItem(item, doc) ==
  LET ld == doc.ld
      parsed == ld.kind = "object"
      \* approach 1: the JSON-LD block
      published1 == IF parsed THEN OrElse(ld.datePublished, ld.dateCreated)
                    ELSE "undefined"
      likes1 == IF parsed /\ ld.stat \notin {"absent", "nolike", "throws"}
                  THEN ParseInt(ld.stat) ELSE "undefined"
      \* the fallbacks
      published2 == IF FalsyText(published1) THEN OrElse(doc.time, "undefined")
                    ELSE published1
      likes2 == IF FalsyNumber(likes1)
                  THEN (IF FalsyText(doc.likeSpan) THEN likes1
                        ELSE ParseInt(doc.likeSpan))
                  ELSE likes1
  IN [CopyOf(item) EXCEPT !.publishedAt = published2, !.likeCount = likes2]

EnrichItem(p, item, doc) ==
  IF p = "note" THEN EnrichNoteItem(item, doc) ELSE EnrichZennItem(item, doc)

\* mutant of DelayRejectsAtOnce: delay never looks at signal.aborted
DelayIgnoresAbortedSignal(ab) == FALSE

\* delay(ms, signal): if (signal.aborted) return reject(AbortError)
DelayRejectsAtOnce(ab) == ab

(***************************************************************************)
(* One call of provider.enrich(items, signal)                              *)
(***************************************************************************)
IdleEnrichCall ==
  /\ eProvider = "qiita"
  /\ eItems = << >>
  /\ itemsAtCall = << >>
  /\ signalAborted = FALSE
  /\ eAbortAt = "never"
  /\ ePc = "done"
  /\ eWait = "none"
  /\ eIdx = 0
  /\ enrichedItems = << >>
  /\ eLog = << >>
  /\ eDocs = << >>
  /\ eOutcome = "none"
  /\ eResult = << >>

InitEnrichCall ==
  /\ eProvider \in ProviderIds
  /\ eItems \in EnrichInputs(eProvider)
  /\ itemsAtCall = eItems
  /\ signalAborted \in BOOLEAN
  /\ eAbortAt = IF signalAborted THEN "call" ELSE "never"
  /\ ePc = "call"
  /\ eWait = "none"
  /\ eIdx = 0
  /\ enrichedItems = << >>
  /\ eLog = << >>
  /\ eDocs = << >>
  /\ eOutcome = "none"
  /\ eResult = << >>

\* enrich settles
EnrichSettled(how, list) ==
  /\ ePc' = "done"
  /\ eWait' = "none"
  /\ eOutcome' = how
  /\ eResult' = list

\* mutant of LoopHead: the loop does not look at signal.aborted
LoopHeadUnchecked(idx, acc, log) ==
  /\ eIdx' = idx
  /\ enrichedItems' = acc
  /\ IF idx > Len(eItems)
       THEN /\ EnrichSettled("resolved", acc)
            /\ eLog' = log
       ELSE /\ ePc' = "fetch"
            /\ eWait' = IF signalAborted THEN "aborted" ELSE "pending"
            /\ eLog' = Append(log, << "fetch", idx >>)
            /\ UNCHANGED << eOutcome, eResult >>

\* the head of the for loop of note's and zenn's enrich, entered with the
\* index of the next item, the accumulator and the log
LoopHead(idx, acc, log) ==
  /\ eIdx' = idx
  /\ enrichedItems' = acc
  /\ IF idx > Len(eItems)
       THEN /\ EnrichSettled("resolved", acc)
            /\ eLog' = log
       ELSE IF signalAborted
         THEN /\ EnrichSettled("aborted", << >>)
              /\ eLog' = log
         ELSE /\ ePc' = "fetch"
              /\ eWait' = "pending"
              /\ eLog' = Append(log, << "fetch", idx >>)
              /\ UNCHANGED << eOutcome, eResult >>

\* mutant of AfterItem: no delay is awaited after the last item
AfterItemNoLastDelay(enriched, how, docs) ==
  /\ eDocs' = Append(eDocs, [how |-> how, doc |-> docs])
  /\ IF eIdx = Len(eItems)
       THEN LoopHead(eIdx + 1, Append(enrichedItems, enriched),
                     Append(eLog, << "item", eIdx >>))
       ELSE /\ enrichedItems' = Append(enrichedItems, enriched)
            /\ UNCHANGED eIdx
            /\ IF DelayRejectsAtOnce(signalAborted)
                 THEN /\ EnrichSettled("aborted", << >>)
                      /\ eLog' = Append(eLog, << "item", eIdx >>)
                 ELSE /\ ePc' = "delay"
                      /\ eWait' = "pending"
                      /\ eLog' = eLog \o << << "item", eIdx >>, << "delay", eIdx >> >>
                      /\ UNCHANGED << eOutcome, eResult >>

\* the rest of a loop iteration once the per-item helper has returned:
\* the push, then the call of delay
AfterItem(enriched, how, docs) ==
  /\ enrichedItems' = Append(enrichedItems, enriched)
  /\ eDocs' = Append(eDocs, [how |-> how, doc |-> docs])
  /\ UNCHANGED eIdx
  /\ IF DelayRejectsAtOnce(signalAborted)
       THEN /\ EnrichSettled("aborted", << >>)
            /\ eLog' = Append(eLog, << "item", eIdx >>)
       ELSE /\ ePc' = "delay"
            /\ eWait' = "pending"
            /\ eLog' = eLog \o << << "item", eIdx >>, << "delay", eIdx >> >>
            /\ UNCHANGED << eOutcome, eResult >>

\* enrich is called.  qiita's maps its eItems without awaiting anything;
\* note's and zenn's enter their loop
EnrichCall ==
  /\ ePc = "call"
  /\ IF eProvider = "qiita"
       THEN /\ IF signalAborted /\ eItems # << >>
                 THEN EnrichSettled("aborted", << >>)
                 ELSE EnrichSettled("resolved",
                        [i \in 1..Len(eItems) |-> EnrichQiitaItem(eItems[i])])
            /\ UNCHANGED << eIdx, enrichedItems, eLog >>
       ELSE LoopHead(1, << >>, eLog)
  /\ UNCHANGED << eProvider, eItems, itemsAtCall, signalAborted, eAbortAt, eDocs >>
  /\ UNCHANGED << engineVars, searchCallVars, appVars, delayVars >>

\* the item page's fetch resolves with a response
FetchResponds(ok) ==
  /\ ePc = "fetch"
  /\ eWait = "pending"
  /\ IF ok
       THEN /\ ePc' = "text"
            /\ UNCHANGED << eWait, eIdx, enrichedItems, eLog, eDocs, eOutcome, eResult >>
       ELSE AfterItem(CopyOf(eItems[eIdx]), "status", << >>)
  /\ UNCHANGED << eProvider, eItems, itemsAtCall, signalAborted, eAbortAt >>
  /\ UNCHANGED << engineVars, searchCallVars, appVars, delayVars >>

\* mutant of FetchRejects: the helper has no catch and a fetch error fails
\* the call
FetchRejectsEscapes ==
  /\ ePc = "fetch"
  /\ eWait \in {"pending", "aborted"}
  /\ EnrichSettled(IF eWait = "aborted" THEN "aborted" ELSE "error", << >>)
  /\ UNCHANGED << eProvider, eItems, itemsAtCall, signalAborted, eAbortAt, eIdx,
                  enrichedItems, eLog, eDocs >>
  /\ UNCHANGED << engineVars, searchCallVars, appVars, delayVars >>

\* the item page's fetch rejects: a network error, or the AbortError of the
\* triggered signal; the helper's catch returns the bare item
FetchRejects ==
  /\ ePc = "fetch"
  /\ eWait \in {"pending", "aborted"}
  /\ AfterItem(CopyOf(eItems[eIdx]),
               IF eWait = "aborted" THEN "aborted" ELSE "error", << >>)
  /\ UNCHANGED << eProvider, eItems, itemsAtCall, signalAborted, eAbortAt >>
  /\ UNCHANGED << engineVars, searchCallVars, appVars, delayVars >>

\* res.text() resolves and the page is parsed
TextArrives(doc) ==
  /\ ePc = "text"
  /\ eWait = "pending"
  /\ AfterItem(EnrichItem(eProvider, eItems[eIdx], doc), "page", << doc >>)
  /\ UNCHANGED << eProvider, eItems, itemsAtCall, signalAborted, eAbortAt >>
  /\ UNCHANGED << engineVars, searchCallVars, appVars, delayVars >>

\* res.text() rejects: a network error, or the AbortError of the triggered
\* signal; the helper's catch returns the bare item
TextRejects ==
  /\ ePc = "text"
  /\ eWait \in {"pending", "aborted"}
  /\ AfterItem(CopyOf(eItems[eIdx]),
               IF eWait = "aborted" THEN "aborted" ELSE "error", << >>)
  /\ UNCHANGED << eProvider, eItems, itemsAtCall, signalAborted, eAbortAt >>
  /\ UNCHANGED << engineVars, searchCallVars, appVars, delayVars >>

\* the delay's timer fires and the loop goes on to the next item
DelayElapses ==
  /\ ePc = "delay"
  /\ eWait = "pending"
  /\ LoopHead(eIdx + 1, enrichedItems, Append(eLog, << "elapsed", eIdx >>))
  /\ UNCHANGED << eProvider, eItems, itemsAtCall, signalAborted, eAbortAt, eDocs >>
  /\ UNCHANGED << engineVars, searchCallVars, appVars, delayVars >>

\* the delay was rejected by the abort event: enrich rejects
DelayRejects ==
  /\ ePc = "delay"
  /\ eWait = "aborted"
  /\ EnrichSettled("aborted", << >>)
  /\ UNCHANGED << eProvider, eItems, itemsAtCall, signalAborted, eAbortAt, eIdx,
                  enrichedItems, eLog, eDocs >>
  /\ UNCHANGED << engineVars, searchCallVars, appVars, delayVars >>

\* the signal is triggered while enrich awaits: the abort event rejects the
\* pending fetch, body read or delay
AbortEnrich ==
  /\ ePc \in {"fetch", "text", "delay"}
  /\ ~signalAborted
  /\ signalAborted' = TRUE
  /\ eAbortAt' = ePc
  /\ eWait' = "aborted"
  /\ UNCHANGED << eProvider, eItems, itemsAtCall, ePc, eIdx, enrichedItems,
                  eLog, eDocs, eOutcome, eResult >>
  /\ UNCHANGED << engineVars, searchCallVars, appVars, delayVars >>

(***************************************************************************)
(* One call of a provider's search: qiitaProvider.search(opts, signal), or *)
(* duckduckgoSiteSearch(site, tokens, maxResults, source, signal), which   *)
(* is all of note's and zenn's search                                      *)
(***************************************************************************)
\* const perPage = 100
PerPage == 100

\* the values of opts.maxDiscover (maxResults) a search is called with
MaxDiscoverValues == {1, 100, 101, 250}

\* what res.json() can give: something that is no array, or an array of
\* so many items
JsonBodies ==
  { [isArray |-> FALSE, length |-> 0] }
    \cup { [isArray |-> TRUE, length |-> n] : n \in {0, 40, PerPage} }

\* the rows of a DuckDuckGo result page: a row with link, target and title,
\* a row without link, one whose link has no uddg parameter, one without
\* title
RowKinds == {"good", "nolink", "nouddg", "notitle"}

ResultPages == SeqsUpTo(RowKinds, MaxRows)

\* mutant of MaxPages: the page cap is rounded down
MaxPagesFloor(m) == m \div PerPage

\* const maxPages = Math.ceil(opts.maxDiscover / perPage)
MaxPages(m) == CeilDiv(m, PerPage)

\* the item pushed for entry i (from 1) of the given page
QiitaItem(pg, i) ==
  [url |-> << "qiita", pg, i >>, source |-> "qiita", title |-> << "title", pg, i >>,
   rank |-> (pg - 1) * PerPage + i, raw |-> << "item", pg, i >>]

\* data.forEach(...): push the entries while foundItems is below maxDiscover
PushPage(found, pg, n, m) ==
  found \o [i \in 1..Min(n, Max(0, m - Len(found))) |-> QiitaItem(pg, i)]

\* results.forEach(...): the rows that give an item, while foundItems is
\* below maxResults
RECURSIVE ParseRows(_, _, _, _)
ParseRows(rows, index, found, m) ==
  IF index > Len(rows) THEN found
  ELSE IF Len(found) < m /\ rows[index] = "good"
    THEN ParseRows(rows, index + 1,
           Append(found, [url |-> << "uddg", index >>, source |-> "note",
                          title |-> << "title", index >>, rank |-> index]), m)
    ELSE ParseRows(rows, index + 1, found, m)

IdleSearchCall ==
  /\ sFn = "qiita"
  /\ maxDiscover = 0
  /\ sAborted = FALSE
  /\ sAbortAt = "never"
  /\ sPc = "done"
  /\ sWait = "none"
  /\ page = 1
  /\ foundItems = << >>
  /\ foundAtAbort = << >>
  /\ fetchLog = << >>
  /\ delayLog = << >>
  /\ bodyLog = << >>
  /\ sFailure = "none"
  /\ sOutcome = "none"
  /\ sResult = << >>

InitSearchCall ==
  /\ sFn \in {"qiita", "ddg"}
  /\ maxDiscover \in MaxDiscoverValues
  /\ sAborted \in BOOLEAN
  /\ sAbortAt = IF sAborted THEN "call" ELSE "never"
  /\ sPc = "call"
  /\ sWait = "none"
  /\ page = 1
  /\ foundItems = << >>
  /\ foundAtAbort = << >>
  /\ fetchLog = << >>
  /\ delayLog = << >>
  /\ bodyLog = << >>
  /\ sFailure = "none"
  /\ sOutcome = "none"
  /\ sResult = << >>

\* return foundItems.slice(0, maxDiscover)
SearchReturns(found) ==
  /\ sPc' = "done"
  /\ sWait' = "none"
  /\ sOutcome' = "resolved"
  /\ sResult' = Slice(found, maxDiscover)

\* the head of the while loop of qiitaProvider.search
QiitaLoopHead(pg, found) ==
  IF Len(found) < maxDiscover /\ pg <= MaxPages(maxDiscover) /\ ~sAborted
    THEN /\ sPc' = "fetch"
         /\ sWait' = "pending"
         /\ fetchLog' = Append(fetchLog, pg)
         /\ UNCHANGED << sOutcome, sResult >>
    ELSE /\ SearchReturns(found)
         /\ UNCHANGED fetchLog

\* search is called.  fetchLog holds the requests that go out: a fetch
\* called with a signal that is already aborted rejects without a request
SearchCall ==
  /\ sPc = "call"
  /\ IF sFn = "qiita"
       THEN QiitaLoopHead(page, foundItems)
       ELSE /\ sPc' = "fetch"
            /\ sWait' = IF sAborted THEN "aborted" ELSE "pending"
            /\ fetchLog' = IF sAborted THEN fetchLog ELSE Append(fetchLog, 1)
            /\ UNCHANGED << sOutcome, sResult >>
  /\ UNCHANGED << sFn, maxDiscover, sAborted, sAbortAt, page, foundItems,
                  foundAtAbort, delayLog, bodyLog, sFailure >>
  /\ UNCHANGED << engineVars, enrichCallVars, appVars, delayVars >>

\* mutant of SearchFetchResponds: qiita returns [] on a response that is
\* not ok, as duckduckgoSiteSearch does
SearchFetchRespondsDropsItems(ok) ==
  /\ sPc = "fetch"
  /\ sWait = "pending"
  /\ IF ok
       THEN /\ sPc' = IF sFn = "qiita" THEN "json" ELSE "text"
            /\ UNCHANGED << sWait, sOutcome, sResult, sFailure >>
       ELSE /\ SearchReturns(<< >>)
            /\ sFailure' = "status"
  /\ UNCHANGED << sFn, maxDiscover, sAborted, sAbortAt, page, foundItems,
                  foundAtAbort, fetchLog, delayLog, bodyLog >>
  /\ UNCHANGED << engineVars, enrichCallVars, appVars, delayVars >>

\* the page's fetch resolves with a response; qiita breaks out of its loop
\* and ddg returns [] when it is not ok
SearchFetchResponds(ok) ==
  /\ sPc = "fetch"
  /\ sWait = "pending"
  /\ IF ok
       THEN /\ sPc' = IF sFn = "qiita" THEN "json" ELSE "text"
            /\ UNCHANGED << sWait, sOutcome, sResult, sFailure >>
       ELSE /\ SearchReturns(IF sFn = "qiita" THEN foundItems ELSE << >>)
            /\ sFailure' = "status"
  /\ UNCHANGED << sFn, maxDiscover, sAborted, sAbortAt, page, foundItems,
                  foundAtAbort, fetchLog, delayLog, bodyLog >>
  /\ UNCHANGED << engineVars, enrichCallVars, appVars, delayVars >>

\* the page's fetch rejects (a network error, or the AbortError of the
\* triggered signal): the catch ends the loop (qiita) or the try (ddg)
SearchFetchRejects ==
  /\ sPc = "fetch"
  /\ sWait \in {"pending", "aborted"}
  /\ SearchReturns(foundItems)
  /\ sFailure' = IF sWait = "aborted" THEN "none" ELSE "network"
  /\ UNCHANGED << sFn, maxDiscover, sAborted, sAbortAt, page, foundItems,
                  foundAtAbort, fetchLog, delayLog, bodyLog >>
  /\ UNCHANGED << engineVars, enrichCallVars, appVars, delayVars >>

\* mutant of QiitaJsonArrives: the next page is requested without a delay
QiitaJsonArrivesNoDelay(body) ==
  /\ sFn = "qiita"
  /\ sPc = "json"
  /\ sWait = "pending"
  /\ bodyLog' = IF body.isArray THEN Append(bodyLog, body.length) ELSE bodyLog
  /\ IF ~body.isArray \/ body.length = 0
       THEN /\ SearchReturns(foundItems)
            /\ sFailure' = IF body.isArray THEN "none" ELSE "malformed"
            /\ UNCHANGED << page, foundItems, fetchLog, delayLog >>
       ELSE LET found == PushPage(foundItems, page, body.length, maxDiscover)
            IN /\ foundItems' = found
               /\ page' = page + 1
               /\ UNCHANGED sFailure
               /\ QiitaLoopHead(page + 1, found)
               /\ UNCHANGED delayLog
  /\ UNCHANGED << sFn, maxDiscover, sAborted, sAbortAt, foundAtAbort >>
  /\ UNCHANGED << engineVars, enrichCallVars, appVars, delayVars >>

\* qiita: res.json() resolves; the page is pushed and the loop goes on,
\* through the politeness delay when another page is to follow
QiitaJsonArrives(body) ==
  /\ sFn = "qiita"
  /\ sPc = "json"
  /\ sWait = "pending"
  /\ bodyLog' = IF body.isArray THEN Append(bodyLog, body.length) ELSE bodyLog
  /\ IF ~body.isArray \/ body.length = 0
       THEN /\ SearchReturns(foundItems)
            /\ sFailure' = IF body.isArray THEN "none" ELSE "malformed"
            /\ UNCHANGED << page, foundItems, fetchLog, delayLog >>
       ELSE LET found == PushPage(foundItems, page, body.length, maxDiscover)
            IN /\ foundItems' = found
               /\ page' = page + 1
               /\ UNCHANGED sFailure
               /\ IF Len(found) < maxDiscover /\ body.length > 0
                       /\ page + 1 <= MaxPages(maxDiscover)
                    THEN IF DelayRejectsAtOnce(sAborted)
                           THEN /\ SearchReturns(found)
                                /\ UNCHANGED << fetchLog, delayLog >>
                           ELSE /\ sPc' = "delay"
                                /\ sWait' = "pending"
                                /\ delayLog' = Append(delayLog, page)
                                /\ UNCHANGED << sOutcome, sResult, fetchLog >>
                    ELSE /\ QiitaLoopHead(page + 1, found)
                         /\ UNCHANGED delayLog
  /\ UNCHANGED << sFn, maxDiscover, sAborted, sAbortAt, foundAtAbort >>
  /\ UNCHANGED << engineVars, enrichCallVars, appVars, delayVars >>

\* reading the body rejects (res.json() of text that is no JSON, a network
\* error, or the AbortError of the triggered signal): the catch ends the
\* loop (qiita) or the try (ddg)
SearchBodyRejects ==
  /\ sPc \in {"json", "text"}
  /\ sWait \in {"pending", "aborted"}
  /\ SearchReturns(foundItems)
  /\ sFailure' \in IF sWait = "aborted" THEN {"none"}
                   ELSE IF sFn = "qiita" THEN {"network", "malformed"}
                   ELSE {"network"}
  /\ UNCHANGED << sFn, maxDiscover, sAborted, sAbortAt, page, foundItems,
                  foundAtAbort, fetchLog, delayLog, bodyLog >>
  /\ UNCHANGED << engineVars, enrichCallVars, appVars, delayVars >>

\* qiita: the politeness delay's timer fires
QiitaDelayElapses ==
  /\ sPc = "delay"
  /\ sWait = "pending"
  /\ QiitaLoopHead(page, foundItems)
  /\ UNCHANGED << sFn, maxDiscover, sAborted, sAbortAt, page, foundItems,
                  foundAtAbort, delayLog, bodyLog, sFailure >>
  /\ UNCHANGED << engineVars, enrichCallVars, appVars, delayVars >>

\* mutant of QiitaDelayRejects: the delay is awaited outside the try block
QiitaDelayRejectsEscapes ==
  /\ sPc = "delay"
  /\ sWait = "aborted"
  /\ sPc' = "done"
  /\ sWait' = "none"
  /\ sOutcome' = "rejected"
  /\ UNCHANGED << sFn, maxDiscover, sAborted, sAbortAt, page, foundItems,
                  foundAtAbort, fetchLog, delayLog, bodyLog, sFailure, sResult >>
  /\ UNCHANGED << engineVars, enrichCallVars, appVars, delayVars >>

\* qiita: the politeness delay was rejected by the abort event; the catch
\* ends the loop
QiitaDelayRejects ==
  /\ sPc = "delay"
  /\ sWait = "aborted"
  /\ SearchReturns(foundItems)
  /\ UNCHANGED << sFn, maxDiscover, sAborted, sAbortAt, page, foundItems,
                  foundAtAbort, fetchLog, delayLog, bodyLog, sFailure >>
  /\ UNCHANGED << engineVars, enrichCallVars, appVars, delayVars >>

\* ddg: res.text() resolves and the result rows are parsed
DdgTextArrives(rows) ==
  /\ sFn = "ddg"
  /\ sPc = "text"
  /\ sWait = "pending"
  /\ IF sAborted
       THEN /\ SearchReturns(foundItems)
            /\ UNCHANGED foundItems
       ELSE LET found == ParseRows(rows, 1, foundItems, maxDiscover)
            IN /\ foundItems' = found
               /\ SearchReturns(found)
  /\ UNCHANGED << sFn, maxDiscover, sAborted, sAbortAt, page, foundAtAbort,
                  fetchLog, delayLog, bodyLog, sFailure >>
  /\ UNCHANGED << engineVars, enrichCallVars, appVars, delayVars >>

\* mutant of AbortSearch: delay has no abort listener, so the signal leaves
\* a pending politeness delay to its timer
AbortSearchKeepsDelay ==
  /\ sPc \in {"fetch", "json", "text", "delay"}
  /\ ~sAborted
  /\ sAborted' = TRUE
  /\ sAbortAt' = sPc
  /\ sWait' = IF sPc = "delay" THEN "pending" ELSE "aborted"
  /\ foundAtAbort' = foundItems
  /\ UNCHANGED << sFn, maxDiscover, sPc, page, foundItems, fetchLog, delayLog,
                  bodyLog, sFailure, sOutcome, sResult >>
  /\ UNCHANGED << engineVars, enrichCallVars, appVars, delayVars >>

\* the signal is triggered while search awaits: the abort event rejects the
\* pending fetch, body read or delay
AbortSearch ==
  /\ sPc \in {"fetch", "json", "text", "delay"}
  /\ ~sAborted
  /\ sAborted' = TRUE
  /\ sAbortAt' = sPc
  /\ sWait' = "aborted"
  /\ foundAtAbort' = foundItems
  /\ UNCHANGED << sFn, maxDiscover, sPc, page, foundItems, fetchLog, delayLog,
                  bodyLog, sFailure, sOutcome, sResult >>
  /\ UNCHANGED << engineVars, enrichCallVars, appVars, delayVars >>

(***************************************************************************)
(* tokenize and the App component: handleStartSearch and handleStopSearch. *)
(* A string is the sequence of its characters.                             *)
(***************************************************************************)
\* the characters of the queries: two letters, a white space and '&'
Chars == {"a", "b", " ", "&"}

\* \s
IsSpace(c) == c = " "

\* [\s&]
IsSeparator(c) == IsSpace(c) \/ c = "&"

\* every text of the search box up to the longest
Queries == SeqsUpTo(Chars, MaxQuery)

\* the texts the runs of the page are started with: empty, blank, one
\* keyword, two keywords, no keyword
PageQueries == { << >>, << " " >>, << "a" >>, << "b", "&", "a" >>, << "&" >> }

\* String.prototype.trim
RECURSIVE TrimStart(_)
TrimStart(str) ==
  IF str # << >> /\ IsSpace(Head(str)) THEN TrimStart(Tail(str)) ELSE str

RECURSIVE TrimEnd(_)
TrimEnd(str) ==
  IF str # << >> /\ IsSpace(str[Len(str)])
    THEN TrimEnd(SubSeq(str, 1, Len(str) - 1)) ELSE str

Trim(str) == TrimEnd(TrimStart(str))

\* str.split(/[\s&]+/): the pieces between the runs of separators, the
\* empty piece before a leading run and after a trailing run included;
\* piece is the piece being read and inRun tells that the character before
\* was a separator
RECURSIVE SplitFrom(_, _, _)
SplitFrom(str, piece, inRun) ==
  IF str = << >> THEN << piece >>
  ELSE IF IsSeparator(Head(str))
    THEN IF inRun THEN SplitFrom(Tail(str), piece, TRUE)
         ELSE << piece >> \o SplitFrom(Tail(str), << >>, TRUE)
    ELSE SplitFrom(Tail(str), Append(piece, Head(str)), FALSE)

Split(str) == SplitFrom(str, << >>, FALSE)

\* tokenize(input): split, trim each piece, drop the empty ones
Tokenize(input) ==
  LET pieces == Split(input)
      trimmed == [i \in 1..Len(pieces) |-> Trim(pieces[i])]
  IN SelectSeq(trimmed, LAMBDA t : t # << >>)

\* maxTotal: 500
AppMaxTotal == 500

\* what runSearch can resolve with in a run of the page
RunResults ==
  { << >>,
    << [url |-> "q1", source |-> "qiita"] >>,
    << [url |-> "q1", source |-> "qiita"], [url |-> "q2", source |-> "qiita"] >> }

IdleApp ==
  /\ query = << >>
  /\ status = "idle"
  /\ statusText = ""
  /\ shownItems = << >>
  /\ selectedUrls = {}
  /\ controller = "null"
  /\ runTokens = << >>
  /\ runs = 0
  /\ reports = << >>
  /\ hintTimers = 0

\* the component as mounted
InitApp ==
  /\ query = << >>
  /\ status = "idle"
  /\ statusText = ""
  /\ shownItems = << >>
  /\ selectedUrls = {}
  /\ controller = "null"
  /\ runTokens = << >>
  /\ runs = 0
  /\ reports = << >>
  /\ hintTimers = 0

\* what the page shows when handleStartSearch returns, with how runSearch
\* settled
Report(how, list, st, text, items, selected) ==
  [how |-> how, aborted |-> controller = "aborted", result |-> list,
   status |-> st, statusText |-> text, shownItems |-> items,
   selectedUrls |-> selected]

\* the user leaves q in the search box and clicks the start button, which
\* is disabled while a search runs: handleStartSearch up to its await
StartSearch(q) ==
  /\ status # "searching"
  /\ query' = q
  /\ IF Trim(q) = << >>
       THEN /\ hintTimers < MaxHints
            /\ statusText' = "enter"
            /\ hintTimers' = hintTimers + 1
            /\ UNCHANGED << status, shownItems, selectedUrls, controller,
                            runTokens, runs >>
       ELSE /\ runs < MaxRuns
            /\ shownItems' = << >>
            /\ selectedUrls' = {}
            /\ status' = "searching"
            /\ statusText' = "searching"
            /\ controller' = "live"
            /\ runTokens' = Tokenize(q)
            /\ runs' = runs + 1
            /\ UNCHANGED hintTimers
  /\ UNCHANGED reports
  /\ UNCHANGED << engineVars, enrichCallVars, searchCallVars, delayVars >>

\* a hint timer fires: setStatusText('')
HintTimerFires ==
  /\ hintTimers > 0
  /\ hintTimers' = hintTimers - 1
  /\ statusText' = ""
  /\ UNCHANGED << query, status, shownItems, selectedUrls, controller, runTokens,
                  runs, reports >>
  /\ UNCHANGED << engineVars, enrichCallVars, searchCallVars, delayVars >>

\* the user clicks the stop button, which is enabled while a search runs
StopSearch ==
  /\ status = "searching"
  /\ controller # "null"
  /\ controller' = "aborted"
  /\ UNCHANGED << query, status, statusText, shownItems, selectedUrls, runTokens,
                  runs, reports, hintTimers >>
  /\ UNCHANGED << engineVars, enrichCallVars, searchCallVars, delayVars >>

\* mutant of RunResolves: the result is shown with nothing selected
RunResolvesSelectsNothing(list) ==
  /\ status = "searching"
  /\ controller = "live"
  /\ shownItems' = list
  /\ selectedUrls' = {}
  /\ status' = "finished"
  /\ reports' = Append(reports,
                  Report("resolved", list, "finished", statusText, list, {}))
  /\ UNCHANGED << query, statusText, controller, runTokens, runs, hintTimers >>
  /\ UNCHANGED << engineVars, enrichCallVars, searchCallVars, delayVars >>

\* runSearch resolves, which it does only with a signal that is not
\* aborted, and the handler goes on after its await
RunResolves(list) ==
  /\ status = "searching"
  /\ controller = "live"
  /\ IF controller = "aborted"
       THEN /\ status' = "stopped"
            /\ statusText' = "stopped"
            /\ UNCHANGED << shownItems, selectedUrls >>
       ELSE /\ shownItems' = list
            /\ selectedUrls' = Urls(list)
            /\ status' = "finished"
            /\ UNCHANGED statusText
  /\ reports' = Append(reports,
                  Report("resolved", list, status', statusText', shownItems',
                         selectedUrls'))
  /\ UNCHANGED << query, controller, runTokens, runs, hintTimers >>
  /\ UNCHANGED << engineVars, enrichCallVars, searchCallVars, delayVars >>

\* runSearch rejects and the handler's catch runs: with an AbortError once
\* the signal is aborted, or with another error, which runSearch itself
\* never lets out, in a run that was not stopped
RunRejects(name) ==
  /\ status = "searching"
  /\ name = "AbortError" <=> controller = "aborted"
  /\ IF name = "AbortError"
       THEN /\ status' = "stopped"
            /\ statusText' = "stopped"
       ELSE /\ status' = "idle"
            /\ statusText' = "error"
  /\ reports' = Append(reports,
                  Report(name, << >>, status', statusText', shownItems,
                         selectedUrls))
  /\ UNCHANGED << query, shownItems, selectedUrls, controller, runTokens, runs,
                  hintTimers >>
  /\ UNCHANGED << engineVars, enrichCallVars, searchCallVars, delayVars >>

(***************************************************************************)
(* delay(ms, signal): the calls made on one signal, each with its promise, *)
(* its timeout and its abort listener                                      *)
(***************************************************************************)
Delays == 1..MaxDelays

\* the ms delay is called with: 300 + Math.random() * 200 by note's and
\* zenn's enrich, 600 by qiita's search
DelayMs == {300, 600}

\* a call of the promise's resolve or reject: the first one settles the
\* promise and a later one does nothing
Settle(state, to) == IF state = "pending" THEN to ELSE state

IdleDelay ==
  /\ dAborted = FALSE
  /\ dMs = [d \in Delays |-> 0]
  /\ dState = [d \in Delays |-> "uncalled"]
  /\ dTimer = [d \in Delays |-> "none"]
  /\ dListener = [d \in Delays |-> FALSE]
  /\ dCalls = [d \in Delays |-> << >>]
  /\ dAtCall = [d \in Delays |-> FALSE]

InitDelay ==
  /\ dAborted \in BOOLEAN
  /\ dMs = [d \in Delays |-> 0]
  /\ dState = [d \in Delays |-> "uncalled"]
  /\ dTimer = [d \in Delays |-> "none"]
  /\ dListener = [d \in Delays |-> FALSE]
  /\ dCalls = [d \in Delays |-> << >>]
  /\ dAtCall = [d \in Delays |-> FALSE]

\* delay(ms, signal) is called: the executor of its promise
DelayCall(d, ms) ==
  /\ dState[d] = "uncalled"
  /\ dMs' = [dMs EXCEPT ![d] = ms]
  /\ dAtCall' = [dAtCall EXCEPT ![d] = dAborted]
  /\ IF dAborted
       THEN /\ dCalls' = [dCalls EXCEPT ![d] = Append(@, "reject")]
            /\ dState' = [dState EXCEPT ![d] = Settle("pending", "rejected")]
            /\ UNCHANGED << dTimer, dListener >>
       ELSE /\ dState' = [dState EXCEPT ![d] = "pending"]
            /\ dTimer' = [dTimer EXCEPT ![d] = "armed"]
            /\ dListener' = [dListener EXCEPT ![d] = TRUE]
            /\ UNCHANGED dCalls
  /\ UNCHANGED dAborted
  /\ UNCHANGED << engineVars, enrichCallVars, searchCallVars, appVars >>

\* the timeout of a call expires: resolve is called
TimerFires(d) ==
  /\ dTimer[d] = "armed"
  /\ dTimer' = [dTimer EXCEPT ![d] = "fired"]
  /\ dCalls' = [dCalls EXCEPT ![d] = Append(@, "resolve")]
  /\ dState' = [dState EXCEPT ![d] = Settle(@, "resolved")]
  /\ UNCHANGED << dAborted, dMs, dListener, dAtCall >>
  /\ UNCHANGED << engineVars, enrichCallVars, searchCallVars, appVars >>

\* mutant of AbortDelays: the listener rejects without clearing the timeout
AbortDelaysKeepsTimers ==
  /\ ~dAborted
  /\ dAborted' = TRUE
  /\ dCalls' = [d \in Delays |->
                  IF dListener[d] THEN Append(dCalls[d], "reject") ELSE dCalls[d]]
  /\ dState' = [d \in Delays |->
                  IF dListener[d] THEN Settle(dState[d], "rejected") ELSE dState[d]]
  /\ UNCHANGED << dMs, dTimer, dListener, dAtCall >>
  /\ UNCHANGED << engineVars, enrichCallVars, searchCallVars, appVars >>

\* the signal is triggered: the abort event runs the listener of every call
\* made so far, which clears the call's timeout and calls reject
AbortDelays ==
  /\ ~dAborted
  /\ dAborted' = TRUE
  /\ dTimer' = [d \in Delays |->
                  IF dListener[d] /\ dTimer[d] = "armed" THEN "cleared" ELSE dTimer[d]]
  /\ dCalls' = [d \in Delays |->
                  IF dListener[d] THEN Append(dCalls[d], "reject") ELSE dCalls[d]]
  /\ dState' = [d \in Delays |->
                  IF dListener[d] THEN Settle(dState[d], "rejected") ELSE dState[d]]
  /\ UNCHANGED << dMs, dListener, dAtCall >>
  /\ UNCHANGED << engineVars, enrichCallVars, searchCallVars, appVars >>

IdleEngine ==
  /\ tokens = << >>
  /\ providers = << >>
  /\ maxTotal = 0
  /\ aborted = FALSE
  /\ abortedIn = "never"
  /\ pc = "done"
  /\ outcome = "none"
  /\ result = << >>
  /\ discovered = << >>
  /\ seenUrls = {}
  /\ searchState = [p \in ProviderIds |-> "idle"]
  /\ searchCalls = [p \in ProviderIds |-> << >>]
  /\ searchResult = [p \in ProviderIds |-> << >>]
  /\ mergeOrder = << >>
  /\ groups = << >>
  /\ enrichState = [p \in ProviderIds |-> "idle"]
  /\ enrichCalls = [p \in ProviderIds |-> << >>]
  /\ enrichChunk = [p \in ProviderIds |-> << >>]
  /\ enrichOrder = << >>

(***************************************************************************)
(* Specifications                                                          *)
(***************************************************************************)
Init == InitEngine /\ IdleEnrichCall /\ IdleSearchCall /\ IdleApp /\ IdleDelay

Next ==
  \/ Start
  \/ SearchSettles
  \/ JoinDiscovery
  \/ EnrichSettles
  \/ JoinEnrich
  \/ Abort

Spec == Init /\ [][Next]_vars

InitEnrich == IdleEngine /\ InitEnrichCall /\ IdleSearchCall /\ IdleApp /\ IdleDelay

NextEnrich ==
  \/ EnrichCall
  \/ \E ok \in BOOLEAN : FetchResponds(ok)
  \/ FetchRejects
  \/ \E doc \in PagesOf(eProvider) : TextArrives(doc)
  \/ TextRejects
  \/ DelayElapses
  \/ DelayRejects
  \/ AbortEnrich

SpecEnrich == InitEnrich /\ [][NextEnrich]_vars

InitSearch == IdleEngine /\ IdleEnrichCall /\ InitSearchCall /\ IdleApp /\ IdleDelay

NextSearch ==
  \/ SearchCall
  \/ \E ok \in BOOLEAN : SearchFetchResponds(ok)
  \/ SearchFetchRejects
  \/ \E body \in JsonBodies : QiitaJsonArrives(body)
  \/ SearchBodyRejects
  \/ QiitaDelayElapses
  \/ QiitaDelayRejects
  \/ \E rows \in ResultPages : DdgTextArrives(rows)
  \/ AbortSearch

SpecSearch == InitSearch /\ [][NextSearch]_vars

InitAll == Init \/ InitEnrich \/ InitSearch

NextAll == Next \/ NextEnrich \/ NextSearch

SpecAll == InitAll /\ [][NextAll]_vars

InitPage == IdleEngine /\ IdleEnrichCall /\ IdleSearchCall /\ InitApp /\ IdleDelay

NextApp ==
  \/ \E q \in PageQueries : StartSearch(q)
  \/ HintTimerFires
  \/ StopSearch
  \/ \E list \in RunResults : RunResolves(list)
  \/ \E name \in ErrorNames : RunRejects(name)

SpecApp == InitPage /\ [][NextApp]_vars

NextTokenize ==
  \/ \E q \in Queries : StartSearch(q)
  \/ HintTimerFires

SpecTokenize == InitPage /\ [][NextTokenize]_vars

InitDelays == IdleEngine /\ IdleEnrichCall /\ IdleSearchCall /\ IdleApp /\ InitDelay

NextDelay ==
  \/ \E d \in Delays : \E ms \in DelayMs : DelayCall(d, ms)
  \/ \E d \in Delays : TimerFires(d)
  \/ AbortDelays

SpecDelay == InitDelays /\ [][NextDelay]_vars

\* the lists a search resolves with in the runs checked for liveness: no
\* item, or one item of the provider's own
LiveResultsOf(p) ==
  { r \in SearchResultsOf(p) : Len(r) <= 1 /\ \A i \in 1..Len(r) : r[i].source = p }

LiveSearchSettles ==
  \E p \in ProviderIds :
    \/ \E items \in LiveResultsOf(p) : SearchResolve(p, items)
    \/ \E name \in ErrorNames : SearchReject(p, name)

\* the steps that are no choice of the caller: a continuation that is ready
\* to run, a request or a body read that settles, a timer that fires
Settles ==
  \/ Start \/ LiveSearchSettles \/ JoinDiscovery \/ EnrichSettles \/ JoinEnrich
  \/ EnrichCall
  \/ \E ok \in BOOLEAN : FetchResponds(ok)
  \/ FetchRejects
  \/ \E doc \in PagesOf(eProvider) : TextArrives(doc)
  \/ TextRejects
  \/ DelayElapses
  \/ DelayRejects
  \/ SearchCall
  \/ \E ok \in BOOLEAN : SearchFetchResponds(ok)
  \/ SearchFetchRejects
  \/ \E body \in JsonBodies : QiitaJsonArrives(body)
  \/ SearchBodyRejects
  \/ QiitaDelayElapses
  \/ QiitaDelayRejects
  \/ \E rows \in ResultPages : DdgTextArrives(rows)

\* every request, body read and timer eventually settles, and a continuation
\* that is ready eventually runs; the caller may trigger the signal or not
NextLive ==
  \/ Start
  \/ LiveSearchSettles
  \/ JoinDiscovery
  \/ EnrichSettles
  \/ JoinEnrich
  \/ Abort
  \/ NextEnrich
  \/ NextSearch

SpecLive == InitAll /\ [][NextLive]_vars /\ WF_vars(Settles)

(***************************************************************************)
(* Properties of runSearch (checked under Spec)                            *)
(***************************************************************************)
\* the lists the search tasks resolved with, concatenated in the order the
\* tasks settled: every item handed to the merge, in merge order
RECURSIVE MergeLog(_)
MergeLog(order) ==
  IF order = << >> THEN << >>
  ELSE (IF searchState[Head(order)] = "resolved" THEN searchResult[Head(order)] ELSE << >>)
         \o MergeLog(Tail(order))

\* the positions of a list that hold the first item with their url
FirstSeen(log) ==
  { i \in 1..Len(log) : \A j \in 1..(i - 1) : log[j].url # log[i].url }

\* pool holds exactly the first-seen items of log, in the order of log
IsFirstSeenOf(pool, log) ==
  /\ Len(pool) = Cardinality(FirstSeen(log))
  /\ \A k \in 1..Len(pool) :
       \E i \in FirstSeen(log) :
         /\ pool[k] = log[i]
         /\ Cardinality({ j \in FirstSeen(log) : j < i }) = k - 1

DiscoveryComplete == pc = "enrich" \/ outcome = "resolved"

\* C1: the merged pool never holds a url twice and the dedup set is the set
\* of its urls; once discovery has finished (a discovery cut short by the
\* signal ends the run with Aborted) the pool holds every discovered url
\* exactly once, the item kept being the first one merged with that url;
\* and when every enrich returned its input's urls, no two items of the
\* returned collection share a url.
C1_Dedup ==
  /\ NoDupUrls(discovered)
  /\ seenUrls = Urls(discovered)
  /\ DiscoveryComplete =>
       /\ Urls(discovered) = Urls(MergeLog(mergeOrder))
       /\ IsFirstSeenOf(discovered, MergeLog(mergeOrder))
  /\ (outcome = "resolved" /\ \A p \in ProviderIds : enrichState[p] # "more")
       => NoDupUrls(result)

\* C1 witness: two providers resolved, a url was repeated within one list
\* and another across the two lists, and the run returned the survivors
C1_Witness ==
  /\ outcome = "resolved"
  /\ Len(mergeOrder) = 2
  /\ \E p \in ProviderIds : ~NoDupUrls(searchResult[p])
  /\ \E p, q \in ProviderIds :
       p # q /\ Urls(searchResult[p]) \cap Urls(searchResult[q]) # {}
  /\ Len(result) = 2
  /\ \A p \in ProviderIds : enrichState[p] # "more"

\* C2: a collection runSearch resolves with has at most maxTotal items.
C2_SizeCap == outcome = "resolved" => Len(result) <= maxTotal

\* C2 witness: a provider returned more than its quota, the enriched chunks
\* together hold more than maxTotal items, and the run resolved
C2_Witness ==
  /\ outcome = "resolved"
  /\ \E p \in ProviderIds :
       /\ searchCalls[p] # << >>
       /\ Len(searchResult[p]) > searchCalls[p][1].maxDiscover
  /\ \E p \in ProviderIds : enrichState[p] = "more"
  /\ Len(Flat(groups, enrichChunk)) > maxTotal
  /\ Len(result) = maxTotal

NoProviderInvoked ==
  \A p \in ProviderIds :
    /\ searchCalls[p] = << >>
    /\ enrichCalls[p] = << >>
    /\ searchState[p] = "idle"
    /\ enrichState[p] = "idle"

\* C3: a run called with an already aborted signal fails with Aborted and
\* invokes neither search nor enrich of any provider.
C3_AbortedAtCall ==
  (abortedIn = "call" /\ pc # "init") =>
    /\ pc = "done"
    /\ outcome = "aborted"
    /\ result = << >>
    /\ NoProviderInvoked

\* C3 witness: a run with two providers was called with the signal aborted
C3_Witness ==
  /\ abortedIn = "call"
  /\ pc = "done"
  /\ Len(providers) = 2

\* C4: a run whose signal was triggered after the call and before it settled
\* never resolves with a collection: it fails with Aborted.
C4_AbortedDuringRun ==
  /\ (abortedIn \in {"discover", "enrich"} /\ pc = "done") =>
       (outcome = "aborted" /\ result = << >>)
  /\ outcome = "resolved" => ~aborted

\* C4 witness: the signal fired during enrichment, after discovery had
\* completed and every enrich had resolved with metadata
C4_Witness ==
  /\ abortedIn = "enrich"
  /\ pc = "done"
  /\ Len(groups) = 2
  /\ \A i \in 1..Len(groups) : enrichState[groups[i].provider] = "ok"

\* C4 witness: the signal fired during discovery, after a provider's items
\* had been merged into the pool
C4_WitnessDiscovery ==
  /\ abortedIn = "discover"
  /\ pc = "done"
  /\ discovered # << >>

\* C5: a search that fails with an error other than cancellation never fails
\* the run and leaves the other providers' tasks alone: the pool is what the
\* other providers' lists give when the failing provider counts as having
\* returned the empty list, and every item of it that resolves to a provider
\* is handed to enrich.
C5_SearchFailureIsolated ==
  /\ outcome # "error"
  /\ \A p \in ProviderIds :
       searchState[p] = "failed" =>
         /\ searchResult[p] = << >>
         /\ \A i \in 1..Len(discovered) :
              \E q \in ProviderIds :
                /\ q # p
                /\ searchState[q] = "resolved"
                /\ \E j \in 1..Len(searchResult[q]) : searchResult[q][j] = discovered[i]
         /\ DiscoveryComplete =>
              /\ IsFirstSeenOf(discovered, MergeLog(mergeOrder))
              /\ \A q \in ProviderIds :
                   searchState[q] = "resolved" =>
                     Urls(searchResult[q]) \subseteq Urls(discovered)
              /\ \A i \in 1..Len(discovered) :
                   discovered[i].source \in Range(providers) =>
                     \E k \in 1..Len(groups) :
                       /\ groups[k].provider = discovered[i].source
                       /\ discovered[i] \in Range(groups[k].items)
                       /\ enrichCalls[groups[k].provider] = << groups[k].items >>
         /\ (pc = "done" /\ ~aborted) => outcome = "resolved"

\* C5 witness: one provider's search failed, the other's items were merged,
\* enriched and returned
C5_Witness ==
  /\ outcome = "resolved"
  /\ \E p, q \in ProviderIds :
       /\ searchState[p] = "failed"
       /\ searchState[q] = "resolved"
       /\ Len(searchResult[q]) = 2
       /\ enrichState[q] = "ok"
  /\ Len(result) = 2

\* what a settled enrichment task must have contributed
ExpectedChunk(k) ==
  LET p == groups[k].provider
  IN IF enrichState[p] \in {"failed", "cancelled"}
       THEN groups[k].items
       ELSE EnrichResolves(groups[k].items, enrichState[p])

RECURSIVE ExpectedOutput(_)
ExpectedOutput(k) ==
  IF k > Len(groups) THEN << >> ELSE ExpectedChunk(k) \o ExpectedOutput(k + 1)

\* the pool items that resolve to provider p, in pool order
PoolItemsOf(p) == SelectSeq(discovered, LAMBDA it : it.source = p)

\* C6: when an enrich fails with an error other than cancellation and the
\* signal is never aborted, the run resolves, and its collection is, cut to
\* maxTotal, the concatenation of the groups: the failing provider's group
\* as the deduplicated items themselves, without metadata, none dropped;
\* every other group as its provider's enrich returned it.
C6_EnrichFailureDegrades ==
  (pc = "done" /\ ~aborted /\ \E p \in ProviderIds : enrichState[p] = "failed") =>
    /\ outcome = "resolved"
    /\ \A k \in 1..Len(groups) :
         enrichState[groups[k].provider] = "failed" =>
           /\ groups[k].items = PoolItemsOf(groups[k].provider)
           /\ \A i \in 1..Len(groups[k].items) : groups[k].items[i].meta = "none"
    /\ result = SubSeq(ExpectedOutput(1), 1, Min(maxTotal, Len(ExpectedOutput(1))))

\* C6 witness: of two groups, the first provider's enrich failed and the
\* second's resolved; the output holds the first group bare, then the second
C6_Witness ==
  /\ outcome = "resolved"
  /\ Len(groups) = 2
  /\ enrichState[groups[1].provider] = "failed"
  /\ enrichState[groups[2].provider] = "ok"
  /\ Len(result) = 3
  /\ result[1].meta = "none"
  /\ result[3].meta = "added"

\* C7: a run called with the signal not aborted has invoked search exactly
\* once on each of its N providers, with the run's tokens and with the least
\* k such that k * N >= maxTotal as maxDiscover, and on no other provider;
\* a run with no providers resolves with the empty collection.
C7_QuotaSplit ==
  (pc # "init" /\ abortedIn # "call") =>
    /\ \A p \in ProviderIds :
         IF p \in Range(providers)
           THEN /\ Len(searchCalls[p]) = 1
                /\ searchCalls[p][1].tokens = tokens
                /\ searchCalls[p][1].maxDiscover * Len(providers) >= maxTotal
                /\ (searchCalls[p][1].maxDiscover - 1) * Len(providers) < maxTotal
           ELSE searchCalls[p] = << >>
    /\ (providers = << >> /\ pc = "done" /\ ~aborted) =>
         (outcome = "resolved" /\ result = << >>)

\* C7 witness: maxTotal = 3 split over two providers gives each a quota of 2
C7_Witness ==
  /\ pc = "done"
  /\ outcome = "resolved"
  /\ Len(providers) = 2
  /\ maxTotal = 3
  /\ \A i \in 1..2 : searchCalls[providers[i]][1].maxDiscover = 2

\* C7 witness: a run with no providers resolved
C7_WitnessNoProviders ==
  /\ providers = << >>
  /\ pc = "done"
  /\ outcome = "resolved"

(***************************************************************************)
(* Properties of the providers' enrich (checked under SpecEnrich)          *)
(***************************************************************************)
FoundItemFields == {"url", "source", "title", "snippet", "rank", "raw"}

\* C8: when a provider's enrich resolves, its output is as long as its input
\* and each output item has the url, source, title, snippet, rank and raw of
\* the input item at its index; the caller's items are never changed.
C8_EnrichPreservesItems ==
  /\ eItems = itemsAtCall
  /\ eOutcome = "resolved" =>
       /\ Len(eResult) = Len(itemsAtCall)
       /\ \A i \in 1..Len(eResult) :
            \A f \in FoundItemFields : eResult[i][f] = itemsAtCall[i][f]

\* C8 witness: zenn's enrich resolved for two items, the first with metadata
\* from its page and the second bare
C8_Witness ==
  /\ eProvider = "zenn"
  /\ eOutcome = "resolved"
  /\ Len(eResult) = 2
  /\ eResult[1].publishedAt # "undefined"
  /\ eResult[1].likeCount # "undefined"
  /\ eResult[2].publishedAt = "undefined"

\* C8 witness: note's enrich resolved for two items with metadata
C8_WitnessNote ==
  /\ eProvider = "note"
  /\ eOutcome = "resolved"
  /\ Len(eResult) = 2
  /\ \A i \in 1..2 : eResult[i].likeCount # "undefined"

\* C8 witness: qiita's enrich resolved for two items
C8_WitnessQiita ==
  /\ eProvider = "qiita"
  /\ eOutcome = "resolved"
  /\ Len(eResult) = 2
  /\ \E i \in 1..2 : eResult[i].likeCount = "42"

\* C9: when the signal fires while note's or zenn's enrich awaits an item's
\* fetch, its body or a delay (the one after the last item included), enrich
\* rejects with Aborted; it never resolves with a list.
C9_EnrichAbortRejects ==
  eProvider \in {"note", "zenn"} =>
    /\ (eAbortAt \in {"fetch", "text", "delay"} /\ ePc = "done") =>
         (eOutcome = "aborted" /\ eResult = << >>)
    /\ eOutcome = "resolved" => (~signalAborted \/ eItems = << >>)

\* C9 witness: the signal fired during the fetch of the last of two items;
\* the helper returned the bare item, which was pushed, and enrich rejected
C9_Witness ==
  /\ eProvider = "note"
  /\ eAbortAt = "fetch"
  /\ ePc = "done"
  /\ eOutcome = "aborted"
  /\ Len(eItems) = 2
  /\ eIdx = 2
  /\ Len(enrichedItems) = 2
  /\ enrichedItems[2] = eItems[2]

\* C9 witness: the signal fired during the delay after the last item
C9_WitnessLastDelay ==
  /\ eProvider = "zenn"
  /\ eAbortAt = "delay"
  /\ ePc = "done"
  /\ eOutcome = "aborted"
  /\ eIdx = Len(eItems)
  /\ Len(enrichedItems) = Len(eItems)
  /\ enrichedItems[1].publishedAt # "undefined"

C10_WitnessFetch ==
  /\ sFn = "qiita"
  /\ sAbortAt = "fetch"
  /\ fetchLog = << 1, 2 >>
  /\ sPc = "done"
  /\ sOutcome = "resolved"
  /\ Len(sResult) = 40

\* C10 witness: duckduckgoSiteSearch was cancelled while the body was read
C10_WitnessDdg ==
  /\ sFn = "ddg"
  /\ sAbortAt = "text"
  /\ sPc = "done"
  /\ sOutcome = "resolved"

\* C10 witness: a result page with more rows than maxResults was cut
C10_WitnessCut ==
  /\ sFn = "ddg"
  /\ maxDiscover = 1
  /\ sAbortAt = "never"
  /\ sOutcome = "resolved"
  /\ sResult # << >>
  /\ sResult[1].rank = 2

\* the sum of the first n numbers of a list
RECURSIVE SumTo(_, _)
SumTo(list, n) == IF n = 0 THEN 0 ELSE list[n] + SumTo(list, n - 1)

\* the number of items of a list that qiita pushed from the given page
FromPage(list, pg) == Cardinality({ i \in 1..Len(list) : list[i].raw[2] = pg })

SearchFailed == sPc = "done" /\ sFailure # "none"

C11_WitnessMalformed ==
  /\ sFn = "qiita"
  /\ sPc = "done"
  /\ sFailure = "malformed"
  /\ fetchLog = << 1, 2, 3 >>
  /\ Len(sResult) = 80

\* C12: qiitaProvider.search requests the pages 1, 2, 3, ... in order, at
\* most ceil(maxDiscover / 100) of them; it requests a further page only
\* while it holds fewer than maxDiscover items and the page before gave
\* items; left alone it stops only with maxDiscover items, after an empty
\* page or at the page cap; with maxDiscover = 250 and every page full it
\* makes exactly 3 requests and returns exactly 250 items.
C12_PageFetches ==
  sFn = "qiita" =>
    /\ \A i \in 1..Len(fetchLog) : fetchLog[i] = i
    /\ (Len(fetchLog) - 1) * 100 < maxDiscover
    /\ \A i \in 2..Len(fetchLog) :
         /\ Len(bodyLog) >= i - 1
         /\ bodyLog[i - 1] > 0
         /\ SumTo(bodyLog, i - 1) < maxDiscover
    /\ (sPc = "done" /\ sAbortAt = "never" /\ sFailure = "none") =>
         \/ Len(sResult) = maxDiscover
         \/ (bodyLog # << >> /\ bodyLog[Len(bodyLog)] = 0)
         \/ Len(fetchLog) * 100 >= maxDiscover
    /\ (sPc = "done" /\ sAbortAt = "never" /\ sFailure = "none" /\ maxDiscover = 250
          /\ \A i \in 1..Len(bodyLog) : bodyLog[i] = 100) =>
         (fetchLog = << 1, 2, 3 >> /\ Len(sResult) = 250)

\* C12 witness: maxDiscover = 250 and three full pages
C12_Witness ==
  /\ sFn = "qiita"
  /\ maxDiscover = 250
  /\ sPc = "done"
  /\ bodyLog = << 100, 100, 100 >>
  /\ fetchLog = << 1, 2, 3 >>
  /\ Len(sResult) = 250
  /\ sResult[250].rank = 250

\* C12 witness: an empty second page ended the paging
C12_WitnessEmptyPage ==
  /\ sFn = "qiita"
  /\ sPc = "done"
  /\ bodyLog = << 40, 0 >>
  /\ fetchLog = << 1, 2 >>
  /\ Len(sResult) = 40

(***************************************************************************)
(* Further properties of the providers' enrich (checked under SpecEnrich)  *)
(***************************************************************************)
\* C13: qiita's enrich sends no request and starts no delay; when it
\* resolves, each output item is the input item at its index with
\* publishedAt and likeCount taken from the payload kept at discovery
\* (absent when there is no payload or the payload lacks them) and with
\* viewCount absent, never 0.
C13_QiitaEnrichPayloadOnly ==
  eProvider = "qiita" =>
    /\ ePc \in {"call", "done"}
    /\ eWait = "none"
    /\ eLog = << >>
    /\ eOutcome = "resolved" =>
         /\ Len(eResult) = Len(itemsAtCall)
         /\ \A i \in 1..Len(eResult) :
              LET in == itemsAtCall[i]
                  out == eResult[i]
              IN /\ \A f \in FoundItemFields : out[f] = in[f]
                 /\ in.raw.kind = "undefined" =>
                      (out.publishedAt = "undefined" /\ out.likeCount = "undefined")
                 /\ in.raw.kind = "object" =>
                      /\ out.publishedAt = in.raw.created_at
                      /\ out.likeCount = in.raw.likes_count
                 /\ out.viewCount = "undefined"
                 /\ out.viewCount # "0"

\* C13 witness: qiita's enrich resolved for an item without payload and an
\* item whose payload has a like count of 0 and no date
C13_Witness ==
  /\ eProvider = "qiita"
  /\ eOutcome = "resolved"
  /\ Len(eResult) = 2
  /\ itemsAtCall[1].raw.kind = "undefined"
  /\ eResult[1].likeCount = "undefined"
  /\ eResult[2].likeCount = "0"
  /\ eResult[2].publishedAt = "undefined"
  /\ eResult[2].viewCount = "undefined"

\* the decimal texts of the non-negative integers the pages carry
CountTexts == {"0", "7", "42", "1234"}

\* the items of a zenn call whose page was read and carries a JSON-LD block
\* that parses
WithStructuredData ==
  { i \in 1..Len(eDocs) :
      /\ eProvider = "zenn"
      /\ eDocs[i].how = "page"
      /\ eDocs[i].doc[1].ld.kind = "object" }

\* C14 as stated: whenever a zenn page's JSON-LD block is present and
\* well-formed, a date it carries (datePublished, else dateCreated) is the
\* item's publishedAt and a LikeAction count it carries, any non-negative
\* integer, is the item's likeCount, whatever the markup holds.
C14_StructuredDataHasPriority ==
  \A i \in WithStructuredData :
    LET ld == eDocs[i].doc[1].ld
        date == IF ld.datePublished \notin {"undefined", ""} THEN ld.datePublished
                ELSE ld.dateCreated
        out == enrichedItems[i]
    IN /\ date \notin {"undefined", ""} => out.publishedAt = date
       /\ ld.stat \in CountTexts => out.likeCount = ld.stat

\* the events of a call that goes through all its items, up to position n
EventAt(k) ==
  << CASE k % 4 = 1 -> "fetch"
       [] k % 4 = 2 -> "item"
       [] k % 4 = 3 -> "delay"
       [] OTHER     -> "elapsed",
     ((k - 1) \div 4) + 1 >>

\* C18: note's and zenn's enrich go through the items in input order, one
\* request at a time: the request for an item goes out only after the item
\* before was handled and the delay after it has elapsed; and enrich
\* resolves only after the delay that follows the last item has elapsed.
C18_EnrichSequential ==
  eProvider \in {"note", "zenn"} =>
    /\ \A k \in 1..Len(eLog) : eLog[k] = EventAt(k)
    /\ Len(eLog) <= 4 * Len(itemsAtCall)
    /\ Cardinality({ k \in 1..Len(eLog) : eLog[k][1] = "fetch" })
         - Cardinality({ k \in 1..Len(eLog) : eLog[k][1] = "item" }) \in {0, 1}
    /\ \A i \in 1..Len(enrichedItems) : enrichedItems[i].url = itemsAtCall[i].url
    /\ eOutcome = "resolved" =>
         /\ Len(eLog) = 4 * Len(itemsAtCall)
         /\ eResult = enrichedItems

\* C18 witness: note's enrich resolved for two items; the last event is the
\* end of the delay after the second item
C18_Witness ==
  /\ eProvider = "note"
  /\ eOutcome = "resolved"
  /\ Len(itemsAtCall) = 2
  /\ Len(eLog) = 8
  /\ eLog[5] = << "fetch", 2 >>
  /\ eLog[8] = << "elapsed", 2 >>

\* C18 witness: zenn's second request is in flight, after the first delay
C18_WitnessInFlight ==
  /\ eProvider = "zenn"
  /\ ePc = "fetch"
  /\ eLog = << << "fetch", 1 >>, << "item", 1 >>, << "delay", 1 >>,
               << "elapsed", 1 >>, << "fetch", 2 >> >>

\* the items whose request failed: a fetch error, a status that is not ok,
\* or an error while the body was read
RequestFailed == { i \in 1..Len(eDocs) : eDocs[i].how \in {"status", "error"} }

\* the items of a zenn call whose JSON-LD block failed to parse, or threw
\* while it was read
StructuredDataFailed ==
  { i \in 1..Len(eDocs) :
      /\ eProvider = "zenn"
      /\ eDocs[i].how = "page"
      /\ \/ eDocs[i].doc[1].ld.kind = "malformed"
         \/ eDocs[i].doc[1].ld.stat = "throws" }

NeverAborted == eAbortAt = "never"

\* C19 as stated: with a signal that is never aborted, note's and zenn's
\* enrich never fail, and resolve with all items; an item with a fetch
\* error, a status that is not ok or a parse error is returned with no
\* metadata added, and every other item is enriched from its own page.
C19_ItemFailureReturnsBareItem ==
  (eProvider \in {"note", "zenn"} /\ NeverAborted) =>
    /\ eOutcome \in {"none", "resolved"}
    /\ eOutcome = "resolved" =>
         /\ Len(eResult) = Len(itemsAtCall)
         /\ \A i \in RequestFailed \cup StructuredDataFailed :
              eResult[i] = itemsAtCall[i]
         /\ \A i \in (1..Len(eResult)) \ (RequestFailed \cup StructuredDataFailed) :
              eResult[i] = EnrichItem(eProvider, itemsAtCall[i], eDocs[i].doc[1])

\* C19 as amended: with a signal that is never aborted, note's and zenn's
\* enrich never fail, and resolve with all items; an item with a fetch
\* error, a status that is not ok or an error while its body is read is
\* returned with no metadata added; a zenn item whose JSON-LD block fails
\* to parse or throws while it is read keeps the date read from the block
\* before the error and otherwise gets what the markup fallback yields; and
\* every other item is enriched from its own page alone.
C19_ItemFailureIsolated ==
  (eProvider \in {"note", "zenn"} /\ NeverAborted) =>
    /\ eOutcome \in {"none", "resolved"}
    /\ eOutcome = "resolved" =>
         /\ Len(eResult) = Len(itemsAtCall)
         /\ Len(eDocs) = Len(itemsAtCall)
         /\ \A i \in RequestFailed : eResult[i] = itemsAtCall[i]
         /\ \A i \in StructuredDataFailed :
              LET doc == eDocs[i].doc[1]
                  date == IF doc.ld.kind = "object"
                            /\ doc.ld.datePublished \notin {"undefined", ""}
                          THEN doc.ld.datePublished
                          ELSE IF doc.time = "" THEN "undefined" ELSE doc.time
                  likes == IF doc.likeSpan \in CountTexts THEN doc.likeSpan
                           ELSE IF doc.likeSpan \in {"undefined", ""} THEN "undefined"
                           ELSE "NaN"
              IN eResult[i] =
                   [itemsAtCall[i] EXCEPT !.publishedAt = date, !.likeCount = likes]
         /\ \A i \in (1..Len(eResult)) \ (RequestFailed \cup StructuredDataFailed) :
              eResult[i] = EnrichItem(eProvider, itemsAtCall[i], eDocs[i].doc[1])

\* C19 witness: the request for the first of two note items failed and the
\* second item was enriched from its page
C19_Witness ==
  /\ eProvider = "note"
  /\ NeverAborted
  /\ eOutcome = "resolved"
  /\ Len(eResult) = 2
  /\ eDocs[1].how = "error"
  /\ eResult[1] = itemsAtCall[1]
  /\ eDocs[2].how = "page"
  /\ eResult[2].likeCount = "42"

\* C19 witness: the JSON-LD block of a zenn item was malformed and the item
\* got its date and like count from the markup
C19_WitnessFallback ==
  /\ eProvider = "zenn"
  /\ NeverAborted
  /\ eOutcome = "resolved"
  /\ 1 \in StructuredDataFailed
  /\ eResult[1].publishedAt = "2024-03-03T00:00:00Z"
  /\ eResult[1].likeCount = "7"

(***************************************************************************)
(* Properties of the whole pipeline (checked under SpecAll)                *)
(***************************************************************************)
\* the number of requests an enrich call has sent
RequestsSent(log) == Cardinality({ k \in 1..Len(log) : log[k][1] = "fetch" })

\* C17: once the signal is triggered no step starts new work: runSearch
\* calls no provider's search or enrich, qiita's search and
\* duckduckgoSiteSearch send no request, note's and zenn's enrich send no
\* request; and after an abort before or during discovery no enrich has
\* been called at all.
C17_NoWorkAfterAbort ==
  [][ /\ aborted => (searchCalls' = searchCalls /\ enrichCalls' = enrichCalls)
      /\ sAborted => fetchLog' = fetchLog
      /\ signalAborted => RequestsSent(eLog') = RequestsSent(eLog)
      /\ abortedIn' \in {"call", "discover"} =>
           \A p \in ProviderIds : enrichCalls'[p] = << >>
      /\ abortedIn' = "call" => \A p \in ProviderIds : searchCalls'[p] = << >>
    ]_vars

\* C17 witness: the signal was triggered while two searches were pending;
\* both resolved with items afterwards and the run ended with no enrich
\* called
C17_Witness ==
  /\ abortedIn = "discover"
  /\ pc = "done"
  /\ outcome = "aborted"
  /\ Len(providers) = 2
  /\ \A i \in 1..2 : searchState[providers[i]] = "resolved"
                       /\ searchResult[providers[i]] # << >>
  /\ \A p \in ProviderIds : enrichCalls[p] = << >>

\* C17 witness: qiita's search was cancelled in the delay after its first
\* page, with two pages still to fetch, and sent no further request
C17_WitnessSearch ==
  /\ sFn = "qiita"
  /\ maxDiscover = 250
  /\ sAbortAt = "delay"
  /\ sPc = "done"
  /\ fetchLog = << 1 >>

\* C17 witness: note's enrich was cancelled while the first of two items
\* was fetched and sent no request for the second
C17_WitnessEnrich ==
  /\ eProvider = "note"
  /\ Len(itemsAtCall) = 2
  /\ eAbortAt = "fetch"
  /\ ePc = "done"
  /\ RequestsSent(eLog) = 1

(***************************************************************************)
(* Properties of the App component (checked under SpecApp)                 *)
(***************************************************************************)
\* C15: every run that ended left exactly one report and a run in progress
\* none; a run whose signal was aborted ended with status 'stopped' and
\* nothing on display; a run that failed with another error ended with
\* status 'idle' and the failure text; a run that resolved without being
\* stopped ended with status 'finished', runSearch's result on display and
\* every url of it selected; while a run is in progress nothing is on
\* display, and afterwards the page keeps the status and the collection of
\* its last report.
C15_RunStatus ==
  /\ Len(reports) = IF status = "searching" THEN runs - 1 ELSE runs
  /\ status = "searching" => (shownItems = << >> /\ selectedUrls = {})
  /\ \A k \in 1..Len(reports) :
       LET r == reports[k]
       IN /\ r.aborted => (r.status = "stopped" /\ r.shownItems = << >>)
          /\ (~r.aborted /\ r.how # "resolved") =>
               (r.status = "idle" /\ r.statusText = "error")
          /\ (~r.aborted /\ r.how = "resolved") =>
               /\ r.status = "finished"
               /\ r.shownItems = r.result
               /\ r.selectedUrls = Urls(r.result)
  /\ (status # "searching" /\ reports # << >>) =>
       /\ status = reports[Len(reports)].status
       /\ shownItems = reports[Len(reports)].shownItems
       /\ selectedUrls = reports[Len(reports)].selectedUrls

\* C15 witness: a first run finished with two items on display, a second
\* run was stopped and the page shows nothing
C15_Witness ==
  /\ Len(reports) = 2
  /\ reports[1].status = "finished"
  /\ Len(reports[1].shownItems) = 2
  /\ reports[2].aborted
  /\ reports[2].how = "AbortError"
  /\ status = "stopped"
  /\ shownItems = << >>

\* C15 witness: a run failed with an error that is no AbortError
C15_WitnessError ==
  /\ reports # << >>
  /\ reports[Len(reports)].how = "TypeError"
  /\ status = "idle"
  /\ statusText = "error"

(***************************************************************************)
(* Properties of tokenize (checked under SpecTokenize)                     *)
(***************************************************************************)
\* the characters of a list of tokens, in order
RECURSIVE Flatten(_)
Flatten(list) == IF list = << >> THEN << >> ELSE Head(list) \o Flatten(Tail(list))

\* C16 as stated: whenever a search was started, its query is not blank
\* after trim, and the tokens passed to runSearch are at least one, none of
\* them empty, none with a white space or '&' in it, and they are the
\* keywords of the query in the order of the query.
C16_TokensOfAcceptedQuery ==
  status = "searching" =>
    /\ Trim(query) # << >>
    /\ runTokens # << >>
    /\ \A i \in 1..Len(runTokens) :
         /\ runTokens[i] # << >>
         /\ \A j \in 1..Len(runTokens[i]) : ~IsSeparator(runTokens[i][j])
    /\ Flatten(runTokens) = SelectSeq(query, LAMBDA c : ~IsSeparator(c))

\* C16 case: a search started with two keywords
C16_WitnessTwoKeywords ==
  /\ status = "searching"
  /\ query = << "b", "&", "a" >>
  /\ runTokens = << << "b" >>, << "a" >> >>

\* C16 case: a search started with a query of separators and no tokens
C16_WitnessNoKeyword ==
  /\ status = "searching"
  /\ query = << "&", " ", "&" >>
  /\ runTokens = << >>

(***************************************************************************)
(* Properties of delay (checked under SpecDelay)                           *)
(***************************************************************************)
\* the state of call d of delay agrees with the calls of resolve and reject
\* made for it
DelaySettled(d) ==
  /\ dState[d] = "uncalled" =>
       (dCalls[d] = << >> /\ dTimer[d] = "none" /\ ~dListener[d])
  /\ (dState[d] # "uncalled" /\ dAtCall[d]) =>
       /\ dState[d] = "rejected"
       /\ dTimer[d] = "none"
       /\ ~dListener[d]
       /\ dCalls[d] = << "reject" >>
  /\ (dState[d] # "uncalled" /\ ~dAtCall[d]) =>
       /\ dState[d] = "pending" =>
            (dTimer[d] = "armed" /\ dCalls[d] = << >> /\ ~dAborted)
       /\ dState[d] = "rejected" =>
            (dTimer[d] = "cleared" /\ dCalls[d] = << "reject" >> /\ dAborted)
       /\ dState[d] = "resolved" =>
            /\ dTimer[d] = "fired"
            /\ dCalls[d] = IF dAborted THEN << "resolve", "reject" >>
                                       ELSE << "resolve" >>

\* C20: a call of delay with the signal already aborted is rejected at once
\* and arms no timer; a pending call is rejected when the signal fires and
\* its timer is cleared, so that resolve is never called for it; otherwise
\* it is resolved when its timer expires, and the reject of a later abort
\* leaves it resolved; a call that was resolved or rejected stays so.
C20_DelaySettlesOnce ==
  /\ [](\A d \in Delays : DelaySettled(d))
  /\ [][\A d \in Delays :
          /\ dState[d] \in {"resolved", "rejected"} => dState'[d] = dState[d]
          /\ dTimer[d] \in {"cleared", "fired"} => dTimer'[d] = dTimer[d]]_vars

\* C20 witness: one call was rejected at once, one was rejected while
\* pending, and one was resolved before the abort, whose reject it ignored
C20_Witness ==
  \E a, b, c \in Delays :
    /\ dAtCall[a] /\ dState[a] = "rejected" /\ dTimer[a] = "none"
    /\ ~dAtCall[b] /\ dState[b] = "rejected" /\ dTimer[b] = "cleared"
    /\ dState[c] = "resolved" /\ dCalls[c] = << "resolve", "reject" >>

(***************************************************************************)
(* Further properties of the providers' search (checked under SpecSearch)  *)
(***************************************************************************)
\* after page pg delivered its array, another page is to be fetched: the
\* count is not reached, the page was not empty and the page cap is not
\* exhausted
AnotherPageFollows(pg) ==
  /\ SumTo(bodyLog, pg) < maxDiscover
  /\ bodyLog[pg] > 0
  /\ pg * PerPage < maxDiscover

\* C21: in qiitaProvider.search the politeness delays are started after the
\* pages 1, 2, 3, ... in order, one per page at most, and only after a page
\* that delivered its array; a delay is started after such a page if and
\* only if another page is to be fetched (count not reached, page not
\* empty, page cap not exhausted); every page after the first is requested
\* at the moment the timer of the delay started after the page before it
\* fires, so that exactly one delay runs to completion between two
\* consecutive requests; and a delay is the last thing the call started
\* only while it is pending or when the signal cancelled it.
C21_PolitenessDelay ==
  /\ [](sFn = "qiita" =>
          /\ \A i \in 1..Len(delayLog) : delayLog[i] = i
          /\ Len(delayLog) <= Len(bodyLog)
          /\ Len(bodyLog) <= Len(fetchLog)
          /\ Len(fetchLog) <= Len(delayLog) + 1
          /\ \A pg \in 1..Len(bodyLog) :
               (pg \in Range(delayLog)) <=> AnotherPageFollows(pg)
          /\ (fetchLog # << >> /\ Len(delayLog) = Len(fetchLog)) =>
               \/ sPc = "delay"
               \/ (sPc = "done" /\ sAbortAt = "delay"))
  /\ [][sFn = "qiita" =>
          /\ (fetchLog' # fetchLog /\ fetchLog # << >>) =>
               /\ sPc = "delay"
               /\ sWait = "pending"
               /\ delayLog = fetchLog
               /\ delayLog' = delayLog
               /\ fetchLog' = Append(fetchLog, Len(fetchLog) + 1)
          /\ delayLog' # delayLog =>
               /\ sPc = "json"
               /\ fetchLog' = fetchLog
               /\ delayLog' = Append(delayLog, Len(fetchLog))]_vars

\* C21 witness: with maxDiscover = 250 three pages were fetched with a
\* delay after the first and after the second and none after the third,
\* where the page cap was exhausted with the count not reached
C21_Witness ==
  /\ sFn = "qiita"
  /\ maxDiscover = 250
  /\ sPc = "done"
  /\ sAbortAt = "never"
  /\ bodyLog = << 100, 40, 100 >>
  /\ fetchLog = << 1, 2, 3 >>
  /\ delayLog = << 1, 2 >>

\* C21 witness: with maxDiscover = 101 the second page reached the count
\* and no delay followed it
C21_WitnessCountReached ==
  /\ sFn = "qiita"
  /\ maxDiscover = 101
  /\ sPc = "done"
  /\ sAbortAt = "never"
  /\ bodyLog = << 100, 100 >>
  /\ delayLog = << 1 >>
  /\ Len(sResult) = 101

(***************************************************************************)
(* Further properties of runSearch (checked under Spec)                    *)
(***************************************************************************)
\* the items of a list whose url is neither in seen nor earlier in the
\* list, in the order of the list
RECURSIVE Survivors(_, _)
Survivors(items, seen) ==
  IF items = << >> THEN << >>
  ELSE IF Head(items).url \in seen
    THEN Survivors(Tail(items), seen)
    ELSE << Head(items) >> \o Survivors(Tail(items), seen \cup {Head(items).url})

\* the pool as one block of survivors per settled search task, the blocks
\* in the order the tasks settled
RECURSIVE BlocksOf(_, _)
BlocksOf(order, seen) ==
  IF order = << >> THEN << >>
  ELSE LET block == Survivors(searchResult[Head(order)], seen)
       IN block \o BlocksOf(Tail(order), seen \cup Urls(block))

\* C22: the pool and the dedup set change only in the step in which a
\* provider's pending search resolves, and that one step appends the
\* survivors of the provider's whole list to the pool (nothing once the
\* signal is aborted); so the pool is one block per provider, each block the
\* provider's surviving items in the order of its own list, the blocks in
\* the order in which the searches settled; a discovery the signal cut
\* short holds the blocks of the searches that settled before the signal.
C22_MergeBlocks ==
  /\ [](/\ abortedIn \in {"never", "enrich"} =>
             discovered = BlocksOf(mergeOrder, {})
        /\ abortedIn = "discover" =>
             \E k \in 0..Len(mergeOrder) :
               discovered = BlocksOf(SubSeq(mergeOrder, 1, k), {})
        /\ abortedIn = "call" => discovered = << >>)
  /\ [][(discovered' # discovered \/ seenUrls' # seenUrls) =>
          \E p \in Range(providers) :
            /\ pc = "discover"
            /\ searchState[p] = "pending"
            /\ searchState'[p] = "resolved"
            /\ mergeOrder' = Append(mergeOrder, p)
            /\ discovered' = discovered \o Survivors(searchResult'[p], seenUrls)
            /\ seenUrls' = seenUrls \cup Urls(searchResult'[p])]_vars

\* C22 witness: two searches resolved in the order opposite to the order of
\* the providers; the pool holds the two items of the first to resolve and
\* then the one item of the second that survived
C22_Witness ==
  /\ pc = "enrich"
  /\ providers = << "qiita", "note" >>
  /\ mergeOrder = << "note", "qiita" >>
  /\ Len(searchResult["note"]) = 2
  /\ Len(searchResult["qiita"]) = 2
  /\ Len(discovered) = 3
  /\ discovered[3] = searchResult["qiita"][1]

\* the pool items whose source is the id of none of the run's providers
Unresolvable ==
  { i \in 1..Len(discovered) : discovered[i].source \notin Range(providers) }

\* C23: every item of a collection runSearch resolves with has the id of
\* one of the run's providers as its source; a pool item whose source is
\* the id of none of them is in no group, is handed to no enrich, and no
\* item of the collection has its url.
C23_SourceIsConfigured ==
  /\ \A k \in 1..Len(groups) :
       /\ groups[k].provider \in Range(providers)
       /\ \A j \in 1..Len(groups[k].items) :
            groups[k].items[j].source = groups[k].provider
  /\ \A p \in ProviderIds :
       \A c \in 1..Len(enrichCalls[p]) :
         \A j \in 1..Len(enrichCalls[p][c]) :
           /\ p \in Range(providers)
           /\ enrichCalls[p][c][j].source = p
  /\ outcome = "resolved" =>
       /\ \A i \in 1..Len(result) : result[i].source \in Range(providers)
       /\ \A i \in Unresolvable : discovered[i].url \notin Urls(result)

\* C23 witness: the pool held an item of the run's provider and an item
\* labelled with a source the run has no provider for; the run resolved
\* with the first alone, although maxTotal left room for both
C23_Witness ==
  /\ outcome = "resolved"
  /\ providers = << "qiita" >>
  /\ Len(discovered) = 2
  /\ discovered[1].source = "zenn"
  /\ discovered[2].source = "qiita"
  /\ maxTotal >= 2
  /\ enrichState["qiita"] = "ok"
  /\ Len(result) = 1
  /\ result[1].url = discovered[2].url

\* the grouping was done: discovery ended with the signal not aborted
Grouped == pc = "enrich" \/ (pc = "done" /\ abortedIn \in {"never", "enrich"})

\* C24: before the grouping, and in a run cancelled before it, no enrich is
\* invoked; the grouping invokes enrich once on every provider of the run
\* that has an item in the pool, and on no other, with exactly the pool
\* items whose source is the provider's id, in pool order; no two groups
\* belong to one provider, and every pool item whose source is the id of a
\* provider of the run is in exactly one group.
C24_OneEnrichPerGroup ==
  /\ ~Grouped => (groups = << >> /\ \A p \in ProviderIds : enrichCalls[p] = << >>)
  /\ Grouped =>
       /\ \A p \in ProviderIds :
            IF p \in Range(providers) /\ PoolItemsOf(p) # << >>
              THEN /\ enrichCalls[p] = << PoolItemsOf(p) >>
                   /\ \E k \in 1..Len(groups) :
                        groups[k] = [provider |-> p, items |-> PoolItemsOf(p)]
              ELSE /\ enrichCalls[p] = << >>
                   /\ \A k \in 1..Len(groups) : groups[k].provider # p
       /\ \A k, l \in 1..Len(groups) : groups[k].provider = groups[l].provider => k = l
       /\ \A i \in 1..Len(discovered) :
            discovered[i].source \in Range(providers) =>
              Cardinality({ << k, j >> \in (1..Len(groups)) \X (1..Len(discovered)) :
                             /\ j <= Len(groups[k].items)
                             /\ groups[k].items[j] = discovered[i] }) = 1

\* C24 witness: a pool of three items, the first and the third of one
\* provider and the second of another, gave two groups, the first with the
\* two items in pool order
C24_Witness ==
  /\ pc = "enrich"
  /\ ~aborted
  /\ providers = << "zenn", "qiita" >>
  /\ Len(discovered) = 3
  /\ discovered[1].source = "zenn"
  /\ discovered[2].source = "qiita"
  /\ discovered[3].source = "zenn"
  /\ groups = << [provider |-> "zenn", items |-> << discovered[1], discovered[3] >>],
                 [provider |-> "qiita", items |-> << discovered[2] >>] >>
  /\ enrichCalls["zenn"] = << << discovered[1], discovered[3] >> >>

\* the position in the pool of the first item that resolves to provider p
FirstInPool(p) ==
  CHOOSE i \in 1..Len(discovered) :
    /\ discovered[i].source = p
    /\ \A j \in 1..(i - 1) : discovered[j].source # p

\* C26: the groups are in the order in which the first item of each
\* provider was merged into the pool, each group in pool order; a collection
\* runSearch resolves with is the concatenation, in the order of the groups,
\* of what each enrichment task contributed, cut to its first maxTotal
\* items: it is a function of the pool and of the tasks' results, whatever
\* the order in which the tasks settled.
C26_OutputOrder ==
  /\ \A k \in 1..Len(groups) :
       /\ groups[k].items = PoolItemsOf(groups[k].provider)
       /\ \A l \in (k + 1)..Len(groups) :
            FirstInPool(groups[k].provider) < FirstInPool(groups[l].provider)
  /\ outcome = "resolved" =>
       /\ Range(enrichOrder) = { groups[k].provider : k \in 1..Len(groups) }
       /\ Len(result) = Min(maxTotal, Len(ExpectedOutput(1)))
       /\ \A i \in 1..Len(result) : result[i] = ExpectedOutput(1)[i]

\* C26 witness: the enrichment task of the second group settled before the
\* task of the first; the collection starts with the first group, and
\* maxTotal cut the last item of the second
C26_Witness ==
  /\ outcome = "resolved"
  /\ Len(groups) = 2
  /\ enrichOrder = << groups[2].provider, groups[1].provider >>
  /\ Len(groups[1].items) = 1
  /\ Len(groups[2].items) = 2
  /\ maxTotal = 2
  /\ Len(result) = 2
  /\ result[1].url = groups[1].items[1].url
  /\ result[2].url = groups[2].items[1].url

(***************************************************************************)
(* Liveness of the pipeline (checked under SpecLive)                       *)
(***************************************************************************)
\* nothing is in progress, and what the signal interrupted ended as a
\* cancellation: the run rejected with Aborted, search resolved, enrich
\* rejected with Aborted
Settled ==
  /\ pc = "done" /\ sPc = "done" /\ ePc = "done"
  /\ aborted => outcome = "aborted"
  /\ sAborted => sOutcome = "resolved"
  /\ eAbortAt \in {"fetch", "text", "delay"} => eOutcome = "aborted"

\* the abort event rejected the await it interrupted: a request, a body
\* read or a delay
AbortRejectsPending ==
  /\ (sAborted /\ sPc \in {"fetch", "json", "text", "delay"}) => sWait = "aborted"
  /\ (signalAborted /\ ePc \in {"fetch", "text", "delay"}) => eWait = "aborted"

\* C25: when every request, body read and timer eventually settles, every
\* run, every call of search and every call of enrich eventually settles,
\* for good; once the signal is triggered, the request, body read or delay
\* it interrupted is rejected by the abort event, and the run ends rejected
\* with Aborted, a call of search ends resolved and a call of enrich that
\* the signal interrupted ends rejected with Aborted.
C25_Settles == []AbortRejectsPending /\ <>[]Settled

\* C25 witness: the signal was triggered during discovery with one search
\* settled and one pending; the pending one was cancelled and the run
\* rejected with Aborted
C25_Witness ==
  /\ abortedIn = "discover"
  /\ pc = "done"
  /\ outcome = "aborted"
  /\ Len(mergeOrder) = 2
  /\ searchState[mergeOrder[1]] = "resolved"
  /\ searchState[mergeOrder[2]] = "cancelled"

\* C25 witness: qiita's search was cancelled in its first politeness delay
\* with two pages still to fetch, and resolved without fetching them
C25_WitnessSearch ==
  /\ sFn = "qiita"
  /\ maxDiscover = 250
  /\ sAbortAt = "delay"
  /\ fetchLog = << 1 >>
  /\ sPc = "done"
  /\ sOutcome = "resolved"

====
